---- MODULE Spec2Model ----
(***************************************************************************)
(* A model of gapi's binding parameters: the BindingParam constructors and *)
(* the Params notation parser, the structural check checkParams, the       *)
(* argument type-check TypeCheckArgs and Binding.Execute.                  *)
(*                                                                         *)
(* Go values are records [k, t, v]: k is "val" for a plain value, "type"   *)
(* for a reflect.Type and "value" for a reflect.Value; t is the name of    *)
(* the (described) type and v the payload, always a string.  Go indices    *)
(* are 0-based and are kept 0-based wherever the code reports them.        *)
(***************************************************************************)
EXTENDS Integers, Sequences, FiniteSets, TLC

VARIABLES
    \* ---- Params(args ...any): the tokens consumed so far and the locals
    args,               \* the tokens the loop has consumed (the call's args)
    bindingParams,      \* the list Params returns
    currentBinding,     \* the param being assembled
    currentBindingArg,  \* the slot of the grouping the parser is at
    skipUntilName,      \* skip mode
    panicked,           \* a failed type assertion arg.(string) / arg.(bool)
    slots,              \* history: the slot and skip mode each token met
    \* ---- one call on a binding
    binding,            \* the bindingProto fields the calls read and write
    callArgs,           \* the arguments of the call
    pc,                 \* "idle", then the operation that has returned
    ret,                \* what the call returned
    \* ---- BindingParam.String()
    bp,                 \* the receiver of String()
    str,                \* the rendering String() returned
    \* ---- a Paginator, its client and the time
    pag,                \* the fields of the paginator
    server,             \* the page the transport returns for each page number
    fails,              \* the transport calls (by ordinal) that return an error
    runs,               \* the number of transport calls made so far
    rateLimit,          \* what RateLimitedClient.LatestRateLimit returns
    clock,              \* time.Now()
    maps,               \* the attribute maps made by the constructors
    threads,            \* the goroutines calling a shared binding
    mutexes             \* who holds attrsMutex and attrFuncsMutex

vars == <<args, bindingParams, currentBinding, currentBindingArg, skipUntilName,
          panicked, slots, binding, callArgs, pc, ret, bp, str,
          pag, server, fails, runs, rateLimit, clock, maps, threads, mutexes>>

parserVars == <<args, bindingParams, currentBinding, currentBindingArg,
                skipUntilName, panicked, slots>>

callVars == <<binding, callArgs, pc, ret>>

stringVars == <<bp, str>>

pagVars == <<pag, server, fails, runs, rateLimit, clock>>

attrVars == <<maps, threads, mutexes>>

----------------------------------------------------------------------------
(* Bounds *)

MaxTokens == 5
MaxParams == 3
MaxArgs == 4
MaxExecParams == 2
MaxExecArgs == 2

----------------------------------------------------------------------------
(* Values and types *)

Val(t, v) == [k |-> "val", t |-> t, v |-> v]

TypeOf(t) == [k |-> "type", t |-> t, v |-> "nil"]

ValueOf(x) == [k |-> "value", t |-> x.t, v |-> x.v]

\* The untyped nil: reflect.TypeOf(nil) is the nil Type.
Nil == Val("nil", "nil")

Kind(t) ==
    CASE t = "string" -> "String"
      [] t = "bool" -> "Bool"
      [] t = "int" -> "Int"
      [] t = "[]int" -> "Slice"
      [] t = "T" -> "Struct"
      [] t = "*T" -> "Ptr"
      [] t = "*I" -> "Ptr"
      [] t = "I" -> "Interface"
      [] t = "[2]int" -> "Array"
      [] t = "*Pages" -> "Ptr"
      [] t = "any" -> "Interface"
      [] t = "Mergeable" -> "Interface"
      [] OTHER -> "Invalid"

\* reflect.Type.Elem of a pointer or slice type.
Elem(t) ==
    CASE t = "[]int" -> "int"
      [] t = "*T" -> "T"
      [] t = "*I" -> "I"
      [] OTHER -> "panic"

\* reflect.Type.Implements: T has value-receiver methods, so T and *T both
\* implement the interface I; no other type of the model does.
Implements(t, iface) == iface = "I" /\ t \in {"T", "*T"}

\* reflect.Value.Len of a slice default.
SliceLen(x) == IF x.v = "[]" THEN 0 ELSE 1

\* *p for a non-nil pointer to an interface holding a T.
Deref(a) == Val("T", a.v)

getReflectType(a) ==
    IF a.k = "val"
    THEN <<a.t, FALSE, a>>
    ELSE IF Kind(a.t) = "Ptr" /\ Kind(Elem(a.t)) = "Interface"
         THEN IF a.k = "type" \/ a.v = "nil"
              THEN <<Elem(a.t), TRUE, Nil>>
              ELSE <<Elem(a.t), TRUE, Deref(a)>>
         ELSE IF a.k = "type"
              THEN <<a.t, FALSE, Nil>>
              ELSE <<a.t, FALSE, Val(a.t, a.v)>>

----------------------------------------------------------------------------
(* BindingParam and its constructors *)

BindingParam(name, variadic, required, defaultValue, t, interfaceFlag) ==
    [name |-> name, variadic |-> variadic, required |-> required,
     defaultValue |-> defaultValue, t |-> t, interfaceFlag |-> interfaceFlag]

\* BindingParam{}
ZeroParam == BindingParam("", FALSE, FALSE, Nil, "nil", FALSE)

Param(name, val) ==
    LET r == getReflectType(val)
    IN  BindingParam(name, FALSE, FALSE, r[3], r[1], r[2])

ReqParam(name, val) ==
    LET r == getReflectType(val)
    IN  BindingParam(name, FALSE, TRUE, r[3], r[1], r[2])

VarParam(name, val) ==
    LET r == getReflectType(val)
    IN  BindingParam(name, TRUE, FALSE, r[3], r[1], r[2])

----------------------------------------------------------------------------
(* BindingParam.String().  A string is the sequence of its non-empty        *)
(* pieces in order: fmt.Sprintf concatenates, so an empty piece leaves no   *)
(* trace in the result.                                                     *)

Piece(x) == IF x = "" THEN <<>> ELSE <<x>>

\* fmt.Sprintf("%v", x) of a type or of a default value.
Sprint(x) == IF x = Nil THEN "<nil>" ELSE x.v

\* fmt.Sprintf("%v", bp.Type())
SprintType(t) == IF t = "nil" THEN "<nil>" ELSE t

\* fmt.Sprintf("%q", s)
Quote(x) == <<"\"">> \o Piece(x.v) \o <<"\"">>

\* The "?" left out for a variadic param.
requiredMarkUnlessVariadic(param) ==
    IF ~param.required /\ ~param.variadic THEN "?" ELSE ""

\* required := ""; if !bp.required { required = "?" }
requiredMark(param) == IF ~param.required THEN "?" ELSE ""

\* def, set in the same branch as required
defSuffix(param) ==
    IF ~param.required
    THEN IF param.defaultValue.k = "val" /\ param.defaultValue.t = "string"
         THEN <<" = ">> \o Quote(param.defaultValue)
         ELSE <<" = ", Sprint(param.defaultValue)>>
    ELSE <<>>

\* i := ""; if bp.interfaceFlag { i = "[I]" }
interfaceMark(param) == IF param.interfaceFlag THEN "[I]" ELSE ""

\* variadic := ""; if bp.variadic { variadic = "..." }
variadicMark(param) == IF param.variadic THEN "..." ELSE ""

\* fmt.Sprintf("%s: %s%v%s%s%s", bp.name, i, bp.Type(), required, variadic, def)
String(param) ==
    Piece(param.name) \o <<": ">> \o Piece(interfaceMark(param))
        \o <<SprintType(param.t)>> \o Piece(requiredMark(param))
        \o Piece(variadicMark(param)) \o defSuffix(param)

----------------------------------------------------------------------------
(* Errors.  kind names the fmt.Errorf call that built the error; name, idx, *)
(* want and got are the values it formats; wrap is the errors.Wrapf prefix. *)

Error(kind, name, idx, want, got) ==
    [kind |-> kind, name |-> name, idx |-> idx, want |-> want, got |-> got,
     wrap |-> ""]

NoErr == Error("nil", "", -1, "", "")

Wrapf(err, msg) == [err EXCEPT !.wrap = msg]

----------------------------------------------------------------------------
(* checkParams(params []BindingParam) *)

\* reflect.ValueOf(x).Kind()
ValueKind(x) == Kind(x.t)

\* The checks of a variadic, non-required param no. i (0-based).
checkVariadic(ps, i) ==
    LET param == ps[i + 1]
    IN  IF i # Len(ps) - 1
        THEN Error("variadicNotLast", param.name, i, "", "")
        ELSE IF param.required
        THEN Error("variadicRequired", param.name, i, "", "")
        ELSE IF ValueKind(param.defaultValue) \notin {"Slice", "Array"}
        THEN Error("variadicDefaultKind", param.name, i, "",
                   ValueKind(param.defaultValue))
        ELSE IF SliceLen(param.defaultValue) # 0
        THEN Error("variadicDefaultLen", param.name, i, "", "")
        ELSE NoErr

\* lastRequiredParam <= i-2
requiredOutOfPlace(lastRequiredParam, i) == lastRequiredParam <= i - 2

RECURSIVE checkParamsLoop(_, _, _)
\* The loop from param no. i (0-based) on; lastRequiredParam starts at 0.
checkParamsLoop(ps, i, lastRequiredParam) ==
    IF i >= Len(ps) THEN NoErr
    ELSE LET param == ps[i + 1]
         IN  IF \E j \in 0..(i - 1) : ps[j + 1].name = param.name
             THEN Error("sameName", param.name, i, "", "")
             ELSE IF param.required
             THEN IF requiredOutOfPlace(lastRequiredParam, i)
                  THEN Error("requiredAfterOptional", param.name, i, "", "")
                  ELSE checkParamsLoop(ps, i + 1, i)
             ELSE IF param.variadic
             THEN IF checkVariadic(ps, i) # NoErr
                  THEN checkVariadic(ps, i)
                  ELSE checkParamsLoop(ps, i + 1, lastRequiredParam)
             ELSE checkParamsLoop(ps, i + 1, lastRequiredParam)

checkParams(ps) == checkParamsLoop(ps, 0, 0)

----------------------------------------------------------------------------
(* bindingProto.  Every method of bindingProto has a value receiver: it     *)
(* works on a copy of the struct, and what it assigns to its fields is gone *)
(* when it returns unless it returns the copy.  The field attrs is a map, a *)
(* reference that the copies share: it names the map in maps that the       *)
(* constructor made.  attrFuncs is the queue of Attr functions.             *)

\* A step method is "nil" or the name of the function; NewBindingChain
\* sets the request method alone.
BindingProto(hasParamsMethod, ps, paramErr, checkedParams) ==
    [hasParamsMethod |-> hasParamsMethod, paramsMethod |-> ps,
     paramErr |-> paramErr, checkedParams |-> checkedParams,
     requestMethod |-> "request", responseWrapperMethod |-> "nil",
     responseUnwrappedMethod |-> "nil", responseMethod |-> "nil",
     paginated |-> FALSE, name |-> "", nameSet |-> FALSE,
     attrs |-> "attrs", attrFuncs |-> <<>>]

\* NewBindingChain(request)
NewBindingChain == BindingProto(FALSE, <<>>, NoErr, FALSE)

\* (b bindingProto) checkParams(params): the method's copy of the receiver
\* when the method returns.
checkParamsReceiver(b, ps) ==
    IF ~b.checkedParams
    THEN [b EXCEPT !.paramErr = checkParams(ps), !.checkedParams = TRUE]
    ELSE b

\* Whether b.checkParams(params), called by Params() on the binding b, runs
\* the check: `if !b.checkedParams`.
checkParamsRuns(b) == b.hasParamsMethod /\ ~b.checkedParams

\* (b bindingProto) Params(): the copy that b.checkParams(params) worked on
\* is dropped, so the call returns the params and changes no binding.
Params(b) ==
    IF ~b.hasParamsMethod THEN <<>>
    ELSE LET dropped == checkParamsReceiver(b, b.paramsMethod)
         IN  b.paramsMethod

\* (b bindingProto) SetParamsMethod(method): returns &b, the copy it set up.
SetParamsMethod(b, ps) ==
    LET b1 == [b EXCEPT !.hasParamsMethod = TRUE, !.paramsMethod = ps,
                        !.paramErr = NoErr, !.checkedParams = FALSE]
        dropped == Params(b1)
    IN  b1

\* A setter with a pointer receiver: it sets the field of the receiver.
pointerReceiver(b, c) == [recv |-> c, out |-> c]

\* func (b bindingProto[ResT, RetT]) SetX(...) { b.x = ...; return &b }: the
\* receiver b is a copy c of the binding the setter was called on; the
\* binding stays as it was (recv) and the copy is returned (out).
valueReceiver(b, c) == [recv |-> b, out |-> c]

SetName(b, name) ==
    valueReceiver(b, [b EXCEPT !.name = name, !.nameSet = TRUE])

SetPaginated(b, paginated) ==
    valueReceiver(b, [b EXCEPT !.paginated = paginated])

SetResponseWrapperMethod(b, method) ==
    valueReceiver(b, [b EXCEPT !.responseWrapperMethod = method])

SetResponseUnwrappedMethod(b, method) ==
    valueReceiver(b, [b EXCEPT !.responseUnwrappedMethod = method])

SetResponseMethod(b, method) ==
    valueReceiver(b, [b EXCEPT !.responseMethod = method])

\* NewBinding(request, wrap, unwrap, response, params, paginated): params
\* is the schema the params method returns, hasParams whether it is not nil.
NewBinding(request, wrap, unwrap, response, hasParams, ps, paginated) ==
    [BindingProto(hasParams, ps, NoErr, FALSE) EXCEPT
        !.requestMethod = request, !.responseWrapperMethod = wrap,
        !.responseUnwrappedMethod = unwrap, !.responseMethod = response,
        !.paginated = paginated]

----------------------------------------------------------------------------
(* TypeCheckArgs(args ...any) *)

\* What a call returns: the argument list, the error, whether it panicked,
\* and for Execute the steps of the pipeline it went through, the step
\* functions (and client.Run) it invoked, each with what it was handed, the
\* attribute map as the call left it, the Attr functions it called, in
\* order, and the attribute map it handed to client.Run.
Ret(newArgs, err, panic, steps) ==
    [newArgs |-> newArgs, err |-> err, panic |-> panic, steps |-> steps,
     invoked |-> <<>>, attrs |-> {}, called |-> <<>>, handed |-> {}]

NoRet == Ret(<<>>, NoErr, FALSE, <<>>)

\* typeCheck that looks through a pointer argument.
typeCheckDeref(param, arg) ==
    LET argType == IF Kind(arg.t) = "Ptr" THEN Elem(arg.t) ELSE arg.t
    IN  IF param.interfaceFlag THEN Implements(argType, param.t)
        ELSE IF param.variadic THEN Elem(param.t) = argType
        ELSE argType = param.t

\* The closure typeCheck: whether arg passes for param.
typeCheck(param, arg) ==
    LET argType == arg.t
    IN  IF param.interfaceFlag THEN Implements(argType, param.t)
        ELSE IF param.variadic THEN Elem(param.t) = argType
        ELSE argType = param.t

\* returnErr that hands back no arguments with the error.
returnErrNil(newArgs, err) == Ret(<<>>, err, FALSE, <<>>)

\* `err = ...; return` with the named result newArgs as built so far.
returnErr(newArgs, err) == Ret(newArgs, err, FALSE, <<>>)

RECURSIVE variadicLoop(_, _, _, _, _)
\* for j, nextArg := range args[i:], from j on (i, j 0-based).
variadicLoop(param, as, i, j, newArgs) ==
    IF i + j >= Len(as) THEN Ret(newArgs, NoErr, FALSE, <<>>)
    ELSE LET nextArg == as[i + j + 1]
         IN  IF ~typeCheck(param, nextArg)
             THEN returnErr(newArgs,
                            Error("variadicTypeMismatch", param.name, j,
                                  Elem(param.t), nextArg.t))
             ELSE variadicLoop(param, as, i, j + 1, Append(newArgs, nextArg))

\* missingArg that adds no default at all.
missingArgNothing(param, newArgs) == newArgs

\* missingArg that adds the default of a variadic param as well.
missingArgDefaultAlways(param, newArgs) == Append(newArgs, param.defaultValue)

\* A non-required param without an argument: the default value, or nothing
\* for a variadic param.
missingArg(param, newArgs) ==
    IF ~param.required /\ ~param.variadic
    THEN Append(newArgs, param.defaultValue)
    ELSE newArgs

\* newArgs = append(newArgs, args[i])
suppliedArg(param, arg, newArgs) == Append(newArgs, arg)

RECURSIVE typeCheckLoop(_, _, _, _)
\* for i, param := range params, from i on (0-based).
typeCheckLoop(ps, as, i, newArgs) ==
    IF i >= Len(ps) THEN Ret(newArgs, NoErr, FALSE, <<>>)
    ELSE LET param == ps[i + 1]
         IN  IF i < Len(as)
             THEN IF param.variadic
                  THEN IF Elem(param.t) = "panic"
                       THEN Ret(newArgs, NoErr, TRUE, <<>>)
                       ELSE variadicLoop(param, as, i, 0, newArgs)
                  ELSE IF ~typeCheck(param, as[i + 1])
                       THEN returnErr(newArgs,
                                      Error("typeMismatch", param.name, i,
                                            param.t, as[i + 1].t))
                       ELSE typeCheckLoop(ps, as, i + 1,
                                          suppliedArg(param, as[i + 1], newArgs))
             ELSE IF param.required
                  THEN returnErr(newArgs,
                                 Error("requiredNotProvided", param.name, i,
                                       "", ""))
                  ELSE typeCheckLoop(ps, as, i + 1, missingArg(param, newArgs))

\* TypeCheckArgs that keeps the arguments past the last param of a schema
\* without a variadic param.
TypeCheckArgsKeepExtras(b, as) ==
    LET ps == Params(b)
    IN  IF b.paramErr # NoErr
        THEN Ret(<<>>, b.paramErr, FALSE, <<>>)
        ELSE IF Len(ps) > 0
             THEN LET r == typeCheckLoop(ps, as, 0, <<>>)
                  IN  IF /\ r.err = NoErr
                         /\ ~r.panic
                         /\ \A i \in 1..Len(ps) : ~ps[i].variadic
                         /\ Len(as) > Len(ps)
                      THEN [r EXCEPT !.newArgs =
                                @ \o SubSeq(as, Len(ps) + 1, Len(as))]
                      ELSE r
             ELSE Ret(<<>>, NoErr, FALSE, <<>>)

TypeCheckArgs(b, as) ==
    LET ps == Params(b)
    IN  IF b.paramErr # NoErr
        THEN Ret(<<>>, b.paramErr, FALSE, <<>>)
        ELSE IF Len(ps) > 0
             THEN typeCheckLoop(ps, as, 0, <<>>)
             ELSE Ret(<<>>, NoErr, FALSE, <<>>)

----------------------------------------------------------------------------
(* Attributes.  An Attr is a record [key, val, needsClient]: the function   *)
(* returns (key, val) when it is given the client it needs, and panics when *)
(* it is given another; one that needs the nil client reads nothing of its  *)
(* client and never panics.  An attribute map is a set of entries           *)
(* [key, val].                                                              *)

Attr(key, val, needsClient) ==
    [key |-> key, val |-> val, needsClient |-> needsClient]

\* The nil Client that NewBinding and AddAttrs evaluate with.
NilClient == "nil"

\* b.attrs[key] = val
Put(m, key, val) == {e \in m : e.key # key} \cup {[key |-> key, val |-> val]}

\* The closure evaluate: ok, which is false when attr(client) panics.
evaluate(attr, client) == attr.needsClient \in {NilClient, client}

RECURSIVE RemoveElems(_, _)
\* slices.RemoveElems(s, indices...): s without the elements at the 0-based
\* indices.
RemoveElems(s, indices) ==
    IF s = <<>> THEN <<>>
    ELSE LET rest == RemoveElems(SubSeq(s, 1, Len(s) - 1), indices)
         IN  IF (Len(s) - 1) \in indices THEN rest
             ELSE Append(rest, s[Len(s)])

RECURSIVE evaluateLoop(_, _, _, _, _)
\* for i, attr := range b.attrFuncs, from i on (0-based).
evaluateLoop(fs, i, m, client, evaluatedAttrIndexes) ==
    IF i >= Len(fs)
    THEN [attrs |-> m, evaluatedAttrIndexes |-> evaluatedAttrIndexes]
    ELSE IF evaluate(fs[i + 1], client)
    THEN evaluateLoop(fs, i + 1, Put(m, fs[i + 1].key, fs[i + 1].val), client,
                      evaluatedAttrIndexes \cup {i})
    ELSE evaluateLoop(fs, i + 1, m, client, evaluatedAttrIndexes)

\* (b bindingProto) evaluateAttrs(client) on the binding b whose attribute
\* map holds m: the map afterwards, the queue of the method's copy of b
\* when it returns, and the functions it called, in order.
evaluateAttrs(b, m, client) ==
    LET r == evaluateLoop(b.attrFuncs, 0, m, client, {})
    IN  [attrs |-> r.attrs,
         attrFuncs |-> IF r.evaluatedAttrIndexes # {}
                       THEN RemoveElems(b.attrFuncs, r.evaluatedAttrIndexes)
                       ELSE b.attrFuncs,
         called |-> b.attrFuncs]

\* (b bindingProto) AddAttrs(attrs...): the receiver, the copy it returns,
\* the attribute map afterwards and the functions it called.
AddAttrs(b, m, fs) ==
    LET c == [b EXCEPT !.attrFuncs = b.attrFuncs \o fs]
        ev == evaluateAttrs(c, m, NilClient)
    IN  [recv |-> valueReceiver(b, c).recv, out |-> valueReceiver(b, c).out,
         attrs |-> ev.attrs, called |-> ev.called]

----------------------------------------------------------------------------
(* Execute(client, args ...any).  A step method that is set is called; the  *)
(* container-builder, client.Run and the unwrapper can return an error.      *)

\* fmt.Sprintf("%T", b)
TypeName == "api.bindingProto"

\* Name(): the type of the binding unless a name was set on it.
Name(b) == IF ~b.nameSet THEN TypeName ELSE b.name

\* A step function or client.Run, as it was called: the arguments handed to
\* a step function, the bindingName handed to client.Run.
Invoked(step, as, bindingName) ==
    [step |-> step, args |-> as, bindingName |-> bindingName]

\* b.Request(args...) and the like: the method is called when it is set.
Invoke(method, step, as) ==
    IF method = "nil" THEN <<>> ELSE <<Invoked(step, as, "")>>

\* The steps of Execute after the type check, in the order of the code.
Pipeline ==
    <<"evaluateAttrs", "Request", "ResponseWrapper", "Run",
      "ResponseUnwrapped", "Response">>

\* The step function of a step; client.Run and evaluateAttrs are always
\* there.
methodOf(b, step) ==
    CASE step = "Request" -> b.requestMethod
      [] step = "ResponseWrapper" -> b.responseWrapperMethod
      [] step = "ResponseUnwrapped" -> b.responseUnwrappedMethod
      [] step = "Response" -> b.responseMethod
      [] OTHER -> step

\* The position in Pipeline of the step that returns an error, 0 for none:
\* fail names the function that returns one when it is called, which the
\* container-builder, client.Run and the unwrapper can.
failsAt(b, fail) ==
    IF fail \notin {"ResponseWrapper", "Run", "ResponseUnwrapped"} THEN 0
    ELSE IF methodOf(b, fail) = "nil" THEN 0
    ELSE CHOOSE i \in 1..Len(Pipeline) : Pipeline[i] = fail

\* stepsDone that goes on after an error.
stepsDoneAll(b, fail) == Pipeline

\* The steps Execute goes through: `return` after the step that failed.
stepsDone(b, fail) ==
    IF failsAt(b, fail) = 0 THEN Pipeline
    ELSE SubSeq(Pipeline, 1, failsAt(b, fail))

\* The error Execute returns.
stepError(b, fail) ==
    IF failsAt(b, fail) = 0 THEN NoErr
    ELSE Wrapf(Error(fail, "", -1, "", ""),
               IF fail = "Run" THEN "could not Execute Binding"
               ELSE IF fail = "ResponseWrapper"
               THEN "could not execute ResponseWrapper"
               ELSE "could not execute ResponseUnwrapped")

RECURSIVE invokedUpTo(_, _, _, _)
\* The step functions and client.Run called in the first n of the steps.
invokedUpTo(b, as, steps, n) ==
    IF n = 0 THEN <<>>
    ELSE invokedUpTo(b, as, steps, n - 1)
            \o (IF steps[n] = "evaluateAttrs" THEN <<>>
                ELSE IF steps[n] = "Run"
                THEN <<Invoked("Run", <<>>, Name(b))>>
                ELSE Invoke(methodOf(b, steps[n]), steps[n], as))

\* Execute(client, args...) on the binding b whose attribute map holds m;
\* fail names the step function that returns an error.
ExecuteSteps(b, m, client, as, fail) ==
    LET tc == TypeCheckArgs(b, as)
        ev == evaluateAttrs(b, m, client)
        done == stepsDone(b, fail)
    IN  IF tc.panic THEN [tc EXCEPT !.attrs = m]
        ELSE IF tc.err # NoErr
        THEN [Ret(tc.newArgs, Wrapf(tc.err, "type check failed"), FALSE, <<>>)
                EXCEPT !.attrs = m]
        ELSE [Ret(tc.newArgs, stepError(b, fail), FALSE, done)
                EXCEPT !.invoked = invokedUpTo(b, tc.newArgs, done, Len(done)),
                       !.attrs = ev.attrs,
                       !.called = ev.called,
                       !.handed = IF \E i \in DOMAIN done : done[i] = "Run"
                                  THEN ev.attrs
                                  ELSE {}]

\* Execute on a binding without attributes: runOk is whether client.Run
\* returns nil.
Execute(b, as, runOk) ==
    ExecuteSteps(b, {}, "client", as, IF runOk THEN "none" ELSE "Run")

\* WrapBinding(binding): the wrapper takes its name from binding.Name().
WrapBinding(b) == [name |-> Name(b), binding |-> b]

\* NewWrappedBinding(name, ...): b := NewBinding(...); b.SetName(name);
\* return WrapBinding(b).  What SetName returns is dropped.
NewWrappedBinding(name, request, wrap, unwrap, response, hasParams, ps, paginated) ==
    LET b == NewBinding(request, wrap, unwrap, response, hasParams, ps,
                        paginated)
    IN  WrapBinding(SetName(b, name).recv)

----------------------------------------------------------------------------
(* Params: one iteration of `for _, arg := range args` *)

\* The locals of Params.
ParserState(bps, cb, cba, skip, pan) ==
    [bindingParams |-> bps, currentBinding |-> cb, currentBindingArg |-> cba,
     skipUntilName |-> skip, panicked |-> pan]

resetCurrentBinding(st) ==
    [st EXCEPT !.currentBinding = ZeroParam, !.currentBindingArg = 0]

setDefaultValue(st, arg) ==
    LET r == getReflectType(arg)
        cb == [st.currentBinding EXCEPT !.defaultValue = r[3], !.t = r[1],
                                        !.interfaceFlag = r[2]]
    IN  [st EXCEPT !.bindingParams = Append(st.bindingParams, cb),
                   !.currentBinding = ZeroParam,
                   !.currentBindingArg = 2]

\* stepString with a string at slot 1 taken as a name as well.
stepStringAlwaysName(st, arg) ==
    LET st1 == IF st.currentBindingArg \in {1, 2, 3}
               THEN resetCurrentBinding(st) ELSE st
    IN  IF arg.k # "val"
        THEN [st1 EXCEPT !.skipUntilName = FALSE, !.panicked = TRUE]
        ELSE [st1 EXCEPT !.skipUntilName = FALSE,
                         !.currentBinding.name = arg.v,
                         !.currentBindingArg = 1]

\* case reflect.String
stepString(st, arg) ==
    LET st1 == IF st.currentBindingArg \in {2, 3}
               THEN resetCurrentBinding(st) ELSE st
    IN  IF st1.currentBindingArg = 0
        THEN IF arg.k # "val"
             THEN [st1 EXCEPT !.skipUntilName = FALSE, !.panicked = TRUE]
             ELSE [st1 EXCEPT !.skipUntilName = FALSE,
                              !.currentBinding.name = arg.v,
                              !.currentBindingArg = 1]
        ELSE IF st1.skipUntilName THEN st1
             ELSE IF st1.currentBindingArg = 1
                  THEN setDefaultValue(st1, arg) ELSE st1

\* stepDefault that does not emit the param at slot 1.
stepDefaultNoEmit(st, arg) == st

\* default
stepDefault(st, arg) ==
    IF st.skipUntilName THEN st
    ELSE IF st.currentBindingArg = 1 THEN setDefaultValue(st, arg) ELSE st

\* setVariadic without the reset of required.
setVariadicKeepRequired(bps, b) ==
    [bps EXCEPT ![Len(bps)].variadic = b]

\* bindingParams[lastBindingParamIdx].variadic = arg.(bool), clearing required
setVariadic(bps, b) ==
    LET last == Len(bps)
    IN  IF b
        THEN [bps EXCEPT ![last].variadic = TRUE, ![last].required = FALSE]
        ELSE [bps EXCEPT ![last].variadic = FALSE]

\* setRequired that ignores the value of the flag.
setRequiredAlways(bps, b) ==
    [bps EXCEPT ![Len(bps)].required = TRUE]

\* bindingParams[lastBindingParamIdx].required = arg.(bool)
setRequired(bps, b) ==
    [bps EXCEPT ![Len(bps)].required = b]

\* stepBool that resets the grouping at slot 0 without skipping.
stepBoolNoSkip(st, arg) ==
    IF st.skipUntilName THEN st
    ELSE IF st.currentBindingArg = 1 THEN setDefaultValue(st, arg)
    ELSE resetCurrentBinding(st)

\* case reflect.Bool
stepBool(st, arg) ==
    IF st.skipUntilName THEN st
    ELSE CASE st.currentBindingArg = 1 -> setDefaultValue(st, arg)
           [] st.currentBindingArg = 2 ->
                IF arg.k # "val"
                THEN [st EXCEPT !.panicked = TRUE]
                ELSE [st EXCEPT
                        !.bindingParams =
                            setRequired(st.bindingParams, arg.v = "true"),
                        !.currentBindingArg = 3]
           [] st.currentBindingArg = 3 ->
                IF arg.k # "val"
                THEN [st EXCEPT !.panicked = TRUE]
                ELSE resetCurrentBinding(
                        [st EXCEPT !.bindingParams =
                            setVariadic(st.bindingParams, arg.v = "true")])
           [] OTHER ->
                resetCurrentBinding([st EXCEPT !.skipUntilName = TRUE])

paramsStep(st, arg) ==
    LET kind == Kind(getReflectType(arg)[1])
    IN  CASE kind = "String" -> stepString(st, arg)
          [] kind = "Bool" -> stepBool(st, arg)
          [] OTHER -> stepDefault(st, arg)

\* The tokens a call of Params is given.
Tokens ==
    {Val("string", "a"), Val("string", "b"), Val("string", "c"),
     Val("string", ""), Val("bool", "true"), Val("bool", "false"),
     Val("int", "1"), Val("[]int", "[]"),
     TypeOf("*I"), TypeOf("string")}

\* No String() call takes part in the run.
IdleString ==
    /\ bp = ZeroParam
    /\ str = <<>>

\* No attribute is evaluated in the run and one goroutine makes the calls.
IdleAttrs ==
    /\ maps = <<>>
    /\ threads = <<>>
    /\ mutexes = <<>>

\* No paginator takes part in the run.
IdlePaginator ==
    /\ pag = <<>>
    /\ server = <<>>
    /\ fails = {}
    /\ runs = 0
    /\ rateLimit = Nil
    /\ clock = 0

IdleParser ==
    /\ args = <<>>
    /\ bindingParams = <<>>
    /\ currentBinding = ZeroParam
    /\ currentBindingArg = 0
    /\ skipUntilName = FALSE
    /\ panicked = FALSE
    /\ slots = <<>>

\* Params is a free function: no binding takes part in its run.
InitParams ==
    /\ IdleParser
    /\ IdleAttrs
    /\ IdleString
    /\ IdlePaginator
    /\ binding = NewBindingChain
    /\ callArgs = <<>>
    /\ pc = "idle"
    /\ ret = NoRet

\* The loop of Params consumes the next token of the call.
ParamsLoop(arg) ==
    /\ ~panicked
    /\ Len(args) < MaxTokens
    /\ LET st == paramsStep(ParserState(bindingParams, currentBinding,
                                        currentBindingArg, skipUntilName,
                                        panicked), arg)
       IN  /\ bindingParams' = st.bindingParams
           /\ currentBinding' = st.currentBinding
           /\ currentBindingArg' = st.currentBindingArg
           /\ skipUntilName' = st.skipUntilName
           /\ panicked' = st.panicked
    /\ args' = Append(args, arg)
    /\ slots' = Append(slots, [slot |-> currentBindingArg,
                               skip |-> skipUntilName])
    /\ UNCHANGED <<callVars, stringVars, pagVars, attrVars>>

NextParams == \E arg \in Tokens : ParamsLoop(arg)

SpecParams == InitParams /\ [][NextParams]_vars

----------------------------------------------------------------------------
(* One call on a binding built by NewBindingChain(request), with or        *)
(* without SetParamsMethod(method).  The schema the method returns is built *)
(* with the constructors, as the fields of BindingParam are unexported.     *)

Int0 == Val("int", "0")
Int1 == Val("int", "1")
Int2 == Val("int", "2")
Int5 == Val("int", "5")
StructT == Val("T", "T{}")
PtrT == Val("*T", "&T{}")
EmptyInts == Val("[]int", "[]")
OneInt == Val("[]int", "[1]")

NameAt(i) == <<"a", "b", "c", "d", "e">>[i]

\* The params of the schemas: required int, optional int with default 1,
\* variadic int, required interface I, required struct T; and two variadic
\* params with a default checkParams must refuse.
Shape(id, name) ==
    CASE id = 1 -> ReqParam(name, Int0)
      [] id = 2 -> Param(name, Int1)
      [] id = 3 -> VarParam(name, EmptyInts)
      [] id = 4 -> ReqParam(name, TypeOf("*I"))
      [] id = 5 -> ReqParam(name, StructT)
      [] id = 6 -> VarParam(name, OneInt)
      [] id = 7 -> VarParam(name, Int1)

SeqsUpTo(S, n) == UNION {[1..k -> S] : k \in 0..n}

\* Schemas with the param names a, b, c, ... in order.
Schemas ==
    {[i \in 1..Len(f) |-> Shape(f[i], NameAt(i))] : f \in SeqsUpTo(1..4, MaxParams)}

\* Schemas with any names, duplicates included, and any default.
CheckSchemas ==
    {[i \in 1..Len(f) |-> Shape(f[i][1], f[i][2])] :
        f \in SeqsUpTo((1..7) \X {"a", "b", "c"}, MaxParams)}

ExecSchemas ==
    {[i \in 1..Len(f) |-> Shape(f[i][1], f[i][2])] :
        f \in SeqsUpTo((1..5) \X {"a", "b"}, MaxExecParams)}

ArgValues == {Int5, Int2, StructT, PtrT}

InitCall(schemas) ==
    /\ IdleParser
    /\ IdleAttrs
    /\ IdleString
    /\ IdlePaginator
    /\ binding \in {NewBindingChain}
                      \cup {SetParamsMethod(NewBindingChain, ps) : ps \in schemas}
    /\ callArgs = <<>>
    /\ pc = "idle"
    /\ ret = NoRet

\* checkParams(params) on the binding's params.
CheckParamsCall ==
    /\ pc = "idle"
    /\ binding.hasParamsMethod
    /\ pc' = "checkParams"
    /\ ret' = Ret(<<>>, checkParams(binding.paramsMethod), FALSE, <<>>)
    /\ UNCHANGED <<binding, callArgs, parserVars, attrVars, stringVars, pagVars>>

\* binding.TypeCheckArgs(as...): the receiver is a copy, the binding stays.
TypeCheckArgsCall(as) ==
    /\ pc = "idle"
    /\ pc' = "TypeCheckArgs"
    /\ callArgs' = as
    /\ ret' = TypeCheckArgs(binding, as)
    /\ UNCHANGED <<binding, parserVars, attrVars, stringVars, pagVars>>

\* binding.Execute(client, as...)
ExecuteCall(as, runOk) ==
    /\ pc = "idle"
    /\ pc' = "Execute"
    /\ callArgs' = as
    /\ ret' = Execute(binding, as, runOk)
    /\ UNCHANGED <<binding, parserVars, attrVars, stringVars, pagVars>>

Init == InitCall(Schemas)

\* The call's arguments are drawn once the binding is still to be called.
Next ==
    /\ pc = "idle"
    /\ \E as \in SeqsUpTo(ArgValues, MaxArgs) : TypeCheckArgsCall(as)

Spec == Init /\ [][Next]_vars

InitCheckParams == InitCall(CheckSchemas)

NextCheckParams == CheckParamsCall

SpecCheckParams == InitCheckParams /\ [][NextCheckParams]_vars

\* The bindings of InitCall, and two built by NewBinding with every step
\* method set, without and with a params method.
InitExecute ==
    /\ IdleParser
    /\ IdleAttrs
    /\ IdleString
    /\ IdlePaginator
    /\ binding \in {NewBindingChain}
                      \cup {SetParamsMethod(NewBindingChain, ps) : ps \in ExecSchemas}
                      \cup {NewBinding("request", "wrap", "unwrap", "response",
                                       FALSE, <<>>, FALSE),
                            NewBinding("request", "wrap", "unwrap", "response",
                                       TRUE, <<ReqParam("a", Int0), Param("b", Int1)>>,
                                       FALSE)}
    /\ callArgs = <<>>
    /\ pc = "idle"
    /\ ret = NoRet

NextExecute ==
    /\ pc = "idle"
    /\ \E as \in SeqsUpTo(ArgValues, MaxExecArgs) :
          \/ TypeCheckArgsCall(as)
          \/ \E runOk \in BOOLEAN : ExecuteCall(as, runOk)

SpecExecute == InitExecute /\ [][NextExecute]_vars

----------------------------------------------------------------------------
(* Properties of checkParams, TypeCheckArgs and Execute.                   *)

\* The schema of the binding the call was made on.
Schema == binding.paramsMethod

UniqueNames(ps) ==
    \A i, j \in 1..Len(ps) : ps[i].name = ps[j].name => i = j

\* The required params form a prefix of the list.
RequiredPrefix(ps) ==
    \A i, j \in 1..Len(ps) : (i < j /\ ps[j].required) => ps[i].required

VariadicLast(ps) ==
    \A i \in 1..Len(ps) : ps[i].variadic => i = Len(ps)

VariadicDefaultEmpty(ps) ==
    \A i \in 1..Len(ps) :
        ps[i].variadic =>
            /\ ps[i].defaultValue.t = "[]int"
            /\ ps[i].defaultValue.v = "[]"

ValidSchema(ps) ==
    /\ UniqueNames(ps)
    /\ RequiredPrefix(ps)
    /\ VariadicLast(ps)
    /\ VariadicDefaultEmpty(ps)

HasVariadic(ps) == \E i \in 1..Len(ps) : ps[i].variadic

\* The number of non-variadic params.
Fixed(ps) == Cardinality({i \in 1..Len(ps) : ~ps[i].variadic})

\* The number of arguments of the variadic tail.
TailLen(ps, as) ==
    IF HasVariadic(ps) /\ Len(as) > Fixed(ps) THEN Len(as) - Fixed(ps) ELSE 0

\* An argument is of the param's type: identical to a concrete type,
\* implementing an interface type.
TypeOK(param, arg) ==
    IF param.interfaceFlag
    THEN param.t = "I" /\ arg.t \in {"T", "*T"}
    ELSE arg.t = param.t

Min(a, b) == IF a < b THEN a ELSE b

\* The arguments satisfy a valid schema: the required params have one, the
\* supplied ones are of their param's type, the tail of the element type.
ArgsSatisfy(ps, as) ==
    /\ \A i \in 1..Len(ps) : ps[i].required => i <= Len(as)
    /\ \A i \in 1..Min(Fixed(ps), Len(as)) : TypeOK(ps[i], as[i])
    /\ \A i \in (Fixed(ps) + 1)..Len(as) : HasVariadic(ps) => as[i].t = "int"

\* The normalized arguments of a valid schema: the argument or else the
\* default for each non-variadic param, then the variadic tail.
Normalized(ps, as) ==
    [i \in 1..(Fixed(ps) + TailLen(ps, as)) |->
        IF i <= Len(as) THEN as[i] ELSE ps[i].defaultValue]

ExampleSchema ==
    <<ReqParam("a", Int0), Param("b", Int1), VarParam("c", EmptyInts)>>

\* C1: for a valid schema and arguments that satisfy it, TypeCheckArgs
\* returns no error and the supplied arguments in order, the default of each
\* optional param without an argument, the variadic tail verbatim, and
\* nothing for a variadic param without arguments; for (a required, b
\* optional = 1, c variadic int), (5) gives (5, 1) and four int arguments
\* come back as they are.
C1_NormalizedArgs ==
    /\ (pc = "TypeCheckArgs" /\ ValidSchema(Schema) /\ ArgsSatisfy(Schema, callArgs))
          => /\ ret.err = NoErr
             /\ ~ret.panic
             /\ ret.newArgs = Normalized(Schema, callArgs)
    /\ (pc = "TypeCheckArgs" /\ Schema = ExampleSchema)
          => /\ callArgs = <<Int5>> => ret.newArgs = <<Int5, Int1>>
             /\ callArgs = <<Int5, Int2, Int2, Int5>>
                   => ret.newArgs = <<Int5, Int2, Int2, Int5>>

C1_Witness ==
    /\ pc = "TypeCheckArgs"
    /\ Schema = ExampleSchema
    /\ callArgs = <<Int5>>
    /\ ret.newArgs = <<Int5, Int1>>
    /\ ret.err = NoErr

\* C2 as stated: the normalized list is as long as the schema, or longer
\* when the variadic tail is populated.
C2_LengthAtLeastSchema ==
    (pc = "TypeCheckArgs" /\ ValidSchema(Schema) /\ ArgsSatisfy(Schema, callArgs))
       => /\ ret.err = NoErr
          /\ IF TailLen(Schema, callArgs) > 0
             THEN Len(ret.newArgs) >= Len(Schema)
             ELSE Len(ret.newArgs) = Len(Schema)

\* C2 (amended): for a valid schema and arguments that satisfy it, the
\* normalized list has one element per non-variadic param plus one per
\* argument of the variadic tail, so it is one shorter than the schema when
\* the variadic param got no argument; every optional slot without an
\* argument holds its declared default.
C2_LengthFixedPlusTail ==
    (pc = "TypeCheckArgs" /\ ValidSchema(Schema) /\ ArgsSatisfy(Schema, callArgs))
       => /\ ret.err = NoErr
          /\ Len(ret.newArgs) = Fixed(Schema) + TailLen(Schema, callArgs)
          /\ (HasVariadic(Schema) /\ TailLen(Schema, callArgs) = 0)
                => Len(ret.newArgs) = Len(Schema) - 1
          /\ (~HasVariadic(Schema)) => Len(ret.newArgs) = Len(Schema)
          /\ \A i \in 1..Fixed(Schema) :
                i > Len(callArgs) => ret.newArgs[i] = Schema[i].defaultValue

C2_Witness ==
    /\ pc = "TypeCheckArgs"
    /\ Schema = ExampleSchema
    /\ callArgs = <<Int2>>
    /\ ret.err = NoErr
    /\ Len(ret.newArgs) = 2

HasDuplicate(ps) ==
    \E i, j \in 1..Len(ps) : i < j /\ ps[i].name = ps[j].name

Range(f) == {f[i] : i \in DOMAIN f}

\* C3: on a binding whose params hold two params of the same name,
\* TypeCheckArgs and Execute return the duplicate-name error for every
\* argument list, and Execute invokes neither the request builder nor the
\* transport.
C3_DuplicateNameSchemaError ==
    (pc \in {"TypeCheckArgs", "Execute"} /\ HasDuplicate(Schema))
       => /\ ret.err.kind = "sameName"
          /\ "Request" \notin Range(ret.steps)
          /\ "Run" \notin Range(ret.steps)

\* C4: checkParams returns an error exactly when the list breaks one of the
\* schema invariants: unique names, the required params a prefix, a variadic
\* param last, a variadic default an empty slice.
C4_CheckParamsIffInvalid ==
    pc = "checkParams" => (ret.err # NoErr <=> ~ValidSchema(Schema))

RECURSIVE NormalizedPrefix(_, _, _)
\* The normalized arguments of the params no. 0..i-1, none of which is a
\* variadic param with arguments.
NormalizedPrefix(ps, as, i) ==
    IF i = 0 THEN <<>>
    ELSE LET rest == NormalizedPrefix(ps, as, i - 1)
         IN  IF ps[i].variadic THEN rest
             ELSE Append(rest, IF i <= Len(as) THEN as[i]
                               ELSE ps[i].defaultValue)

\* C5: when TypeCheckArgs fails at the non-variadic param no. i, with a type
\* mismatch or a required param without an argument, it returns with the
\* error the normalized arguments of the params no. 0..i-1, and the error
\* names param no. i.
C5_PartialResultOnError ==
    (pc = "TypeCheckArgs" /\ ret.err.kind \in {"typeMismatch", "requiredNotProvided"})
       => LET i == ret.err.idx
          IN  /\ i \in 0..(Len(Schema) - 1)
              /\ ~Schema[i + 1].variadic
              /\ ret.err.name = Schema[i + 1].name
              /\ ret.err.kind = "typeMismatch"
                    => i < Len(callArgs) /\ ~TypeOK(Schema[i + 1], callArgs[i + 1])
              /\ ret.err.kind = "requiredNotProvided"
                    => i >= Len(callArgs) /\ Schema[i + 1].required
              /\ ret.newArgs = NormalizedPrefix(Schema, callArgs, i)
              /\ ValidSchema(Schema) => Len(ret.newArgs) = i

C5_Witness ==
    /\ pc = "TypeCheckArgs"
    /\ Schema = <<ReqParam("a", Int0), ReqParam("b", TypeOf("*I")), ReqParam("c", Int0)>>
    /\ callArgs = <<Int5, PtrT, PtrT>>
    /\ ret.err = Error("typeMismatch", "c", 2, "int", "*T")
    /\ ret.newArgs = <<Int5, PtrT>>

\* The non-variadic params an argument list reaches: those before the first
\* variadic param that have an argument.
Reached(ps, as) ==
    {i \in 1..Min(Len(ps), Len(as)) : \A j \in 1..i : ~ps[j].variadic}

Rejected(ps, as) == {i \in Reached(ps, as) : ~TypeOK(ps[i], as[i])}

\* C6: the argument of a non-variadic param is accepted exactly when its type
\* is the declared type (*T is refused for T) or implements the declared
\* interface (T and *T both pass); the first refused argument is reported
\* with the param's name and type, the argument's index and its type.
C6_TypeCheckAcceptance ==
    pc = "TypeCheckArgs" =>
        /\ ret.err.kind = "typeMismatch" <=> Rejected(Schema, callArgs) # {}
        /\ Rejected(Schema, callArgs) # {} =>
              LET i == CHOOSE k \in Rejected(Schema, callArgs) :
                           \A m \in Rejected(Schema, callArgs) : k <= m
              IN  ret.err = Error("typeMismatch", Schema[i].name, i - 1,
                                  Schema[i].t, callArgs[i].t)
        /\ (Schema = <<ReqParam("a", StructT)>> /\ callArgs = <<PtrT>>)
              => ret.err = Error("typeMismatch", "a", 0, "T", "*T")
        /\ (Schema = <<ReqParam("a", TypeOf("*I"))>>
               /\ callArgs \in {<<StructT>>, <<PtrT>>})
              => ret.err = NoErr /\ ret.newArgs = callArgs

C6_Witness ==
    /\ pc = "TypeCheckArgs"
    /\ Schema = <<ReqParam("a", TypeOf("*I")), ReqParam("b", StructT)>>
    /\ callArgs = <<PtrT, PtrT>>
    /\ ret.err = Error("typeMismatch", "b", 1, "T", "*T")

----------------------------------------------------------------------------
(* Properties of Params.  Every reachable state of SpecParams is the state *)
(* of a call Params(args...) after its loop has consumed all of args, so   *)
(* bindingParams is what that call returns unless it panicked.             *)

StrA == Val("string", "a")
StrB == Val("string", "b")
StrC == Val("string", "c")
StrEmpty == Val("string", "")
True == Val("bool", "true")
False == Val("bool", "false")
TokenKind(k) == Kind(getReflectType(args[k])[1])

\* Token k was taken as the name of a new grouping.
AcceptedName(k) ==
    /\ TokenKind(k) = "String"
    /\ args[k].k = "val"
    /\ slots[k].slot \in {0, 2, 3}

\* Token k was taken as the value (slot 1) of a grouping.
ValuePos == {k \in 1..Len(args) : slots[k].slot = 1}

\* The position of the value token of the j-th grouping that has one.
ValueAt(j) == CHOOSE k \in ValuePos : Cardinality({p \in ValuePos : p <= k}) = j

\* The positions of the boolean flags of the grouping whose value token is k:
\* the first boolean met while the parser stays at slot 2, and the first one
\* met after it while the parser stays at slot 3.
Flag2Pos(k) ==
    {m \in (k + 1)..Len(args) :
        /\ TokenKind(m) = "Bool"
        /\ \A p \in (k + 1)..m : slots[p].slot = 2}

Flag3Pos(k) ==
    {m \in (k + 1)..Len(args) :
        /\ TokenKind(m) = "Bool"
        /\ slots[m].slot = 3
        /\ \E f \in Flag2Pos(k) : \A p \in (f + 1)..m : slots[p].slot = 3}

TrueAt2(k) == \E m \in Flag2Pos(k) : args[m] = True
TrueAt3(k) == \E m \in Flag3Pos(k) : args[m] = True

\* C7: no param returned by Params is both required and variadic; the
\* boolean true at slot 3 leaves the grouping's param variadic and
\* non-required whatever its slot-2 flag was; Params("a", []int{}, false, true)
\* returns one variadic, non-required param with the empty default.
C7_NeverRequiredAndVariadic ==
    /\ \A i \in 1..Len(bindingParams) :
          ~(bindingParams[i].required /\ bindingParams[i].variadic)
    /\ \A j \in 1..Len(bindingParams) :
          (~panicked /\ TrueAt3(ValueAt(j)))
             => bindingParams[j].variadic /\ ~bindingParams[j].required
    /\ args = <<StrA, EmptyInts, False, True>>
          => bindingParams =
                <<BindingParam("a", TRUE, FALSE, EmptyInts, "[]int", FALSE)>>

C7_Witness ==
    /\ args = <<StrA, EmptyInts, True, True>>
    /\ bindingParams = <<BindingParam("a", TRUE, FALSE, EmptyInts, "[]int", FALSE)>>

\* C8: a name token followed by no token yields no param: the number of
\* params returned is the number of accepted name tokens that are followed
\* by one more token; Params("a", "", true, "b") returns the one required
\* param a with default "".
C8_ParamPerFollowedName ==
    /\ ~panicked =>
          Len(bindingParams) =
             Cardinality({k \in 1..(Len(args) - 1) : AcceptedName(k)})
    /\ args = <<StrA, StrEmpty, True, StrB>>
          => bindingParams =
                <<BindingParam("a", FALSE, TRUE, StrEmpty, "string", FALSE)>>

C8_Witness ==
    /\ args = <<StrA, StrEmpty, True, StrB>>
    /\ Len(bindingParams) = 1
    /\ currentBinding.name = "b"

\* The effect of consuming a plain string token.
C9_StringStep ==
    LET n == Len(args')
        tok == args'[n]
    IN  (n = Len(args) + 1 /\ tok.k = "val" /\ tok.t = "string") =>
            IF currentBindingArg = 1
            THEN /\ bindingParams' =
                       Append(bindingParams,
                              [currentBinding EXCEPT !.defaultValue = tok,
                                                     !.t = "string"])
                 /\ currentBindingArg' = 2
            ELSE /\ bindingParams' = bindingParams
                 /\ currentBinding' = [ZeroParam EXCEPT !.name = tok.v]
                 /\ currentBindingArg' = 1

C9_Example ==
    args = <<StrA, StrB, StrC>>
       => bindingParams =
             <<BindingParam("a", FALSE, FALSE, StrB, "string", FALSE)>>

\* C9: a string token met at slot 1 becomes the default value of the current
\* param, which is emitted; a string token met at slot 0, 2 or 3 becomes the
\* name of a new param and emits nothing; Params("a", "b", "c") returns the
\* one optional string param a with default "b".
C9_StringTokenBySlot == [][C9_StringStep]_vars /\ []C9_Example

C9_Witness ==
    /\ args = <<StrA, StrB, StrC>>
    /\ Len(bindingParams) = 1
    /\ currentBinding.name = "c"

\* C10: the params come in the order of their groupings; a param is required
\* exactly when its grouping has the boolean true at slot 2 and not the
\* boolean true at slot 3; its name and default are the grouping's slot-0 and
\* slot-1 tokens, and without flags it is optional and non-variadic.
C10_OrderAndFlags ==
    ~panicked =>
        /\ Len(bindingParams) = Cardinality(ValuePos)
        /\ \A j \in 1..Len(bindingParams) :
              LET k == ValueAt(j)
                  p == bindingParams[j]
              IN  /\ p.name = args[k - 1].v
                  /\ p.defaultValue = getReflectType(args[k])[3]
                  /\ p.required <=> (TrueAt2(k) /\ ~TrueAt3(k))
                  /\ p.variadic <=> TrueAt3(k)
                  /\ (Flag2Pos(k) = {}) => (~p.required /\ ~p.variadic)

C10_Witness ==
    /\ args = <<StrB, Val("int", "1"), True, StrA, EmptyInts>>
    /\ bindingParams =
          <<BindingParam("b", FALSE, TRUE, Val("int", "1"), "int", FALSE),
            BindingParam("a", FALSE, FALSE, EmptyInts, "[]int", FALSE)>>

----------------------------------------------------------------------------
(* One call of String() on a param built by a constructor.                  *)

StringNames == {"a", "b", "c"}

StringValues ==
    {Int0, Int1, StructT, PtrT, EmptyInts, OneInt,
     Val("string", "a"), Val("string", ""), Val("string", "..."),
     Val("string", "?"), Val("*I", "T{}"), TypeOf("*I"), TypeOf("string")}

StringParams ==
    {ZeroParam}
        \cup {Param(n, v) : n \in StringNames, v \in StringValues}
        \cup {ReqParam(n, v) : n \in StringNames, v \in StringValues}
        \cup {VarParam(n, v) : n \in StringNames, v \in StringValues}

InitString ==
    /\ IdleParser
    /\ IdleAttrs
    /\ binding = NewBindingChain
    /\ callArgs = <<>>
    /\ pc = "idle"
    /\ ret = NoRet
    /\ bp \in StringParams
    /\ str = <<>>
    /\ IdlePaginator

\* bp.String()
StringCall ==
    /\ pc = "idle"
    /\ pc' = "String"
    /\ str' = String(bp)
    /\ UNCHANGED <<binding, callArgs, ret, bp, parserVars, attrVars, pagVars>>

NextString == StringCall

SpecString == InitString /\ [][NextString]_vars

\* The index of the first piece equal to x, or Len(s) + 1.
IndexOf(s, x) ==
    IF \E i \in 1..Len(s) : s[i] = x
    THEN CHOOSE i \in 1..Len(s) : s[i] = x /\ \A j \in 1..(i - 1) : s[j] # x
    ELSE Len(s) + 1

\* The type/flags portion of a rendering: after ": ", before " = ".
FlagsPortion(s) ==
    {s[i] : i \in (IndexOf(s, ": ") + 1)..(IndexOf(s, " = ") - 1)}

\* The classification read back from a rendering.
Classify(s) ==
    [required |-> "?" \notin FlagsPortion(s),
     variadic |-> "..." \in FlagsPortion(s),
     interfaceFlag |-> "[I]" \in FlagsPortion(s),
     hasDefault |-> IndexOf(s, " = ") <= Len(s)]

\* C11: the rendering String() returns has the "?" marker exactly for a
\* param that is not required, the "..." marker exactly for a variadic
\* param, the "[I]" marker exactly for an interface-typed param and the
\* " = <default>" suffix exactly for a param that is not required, so the
\* classification read back from the rendering is the param's own.
C11_MarkersIffFlags ==
    pc = "String" =>
        LET c == Classify(str)
        IN  /\ c.required = bp.required
            /\ c.variadic = bp.variadic
            /\ c.interfaceFlag = bp.interfaceFlag
            /\ c.hasDefault = ~bp.required
            /\ c.hasDefault => Len(str) > IndexOf(str, " = ")

\* The variadic param of the example: `a: []int?... = []`.
C11_Witness ==
    /\ pc = "String"
    /\ bp = VarParam("a", EmptyInts)
    /\ str = <<"a", ": ", "[]int", "?", "...", " = ", "[]">>

----------------------------------------------------------------------------
(* Paginator.  A page (a value of the return type RetT) is a record         *)
(* [k, items, hasMore]: k is "slice" for an ordered sequence, "mergeable"   *)
(* for a Mergeable and "nil" for the nil interface; a Mergeable here keeps  *)
(* its items and the answer of HasMore, and Merge appends.  A page of a     *)
(* type that implements Afterable has afterable set, and after is what its  *)
(* After() returns: a cursor, or Nil.                                       *)

MaxServerPages == 2
MaxPageNo == 3
MaxClock == 3

SlicePage(items) ==
    [k |-> "slice", items |-> items, hasMore |-> FALSE, afterable |-> FALSE,
     after |-> Nil]

MergeablePage(items, hasMore) ==
    [k |-> "mergeable", items |-> items, hasMore |-> hasMore,
     afterable |-> FALSE, after |-> Nil]

\* A page of a slice type with an After() method.
AfterablePage(items, after) ==
    [k |-> "slice", items |-> items, hasMore |-> FALSE, afterable |-> TRUE,
     after |-> after]

\* The nil any an untyped paginator starts with.
NilPage ==
    [k |-> "nil", items |-> <<>>, hasMore |-> FALSE, afterable |-> FALSE,
     after |-> Nil]

\* The zero value of RetT: a nil slice, or a Mergeable without items.
ZeroPage(mergeable) ==
    IF mergeable THEN MergeablePage(<<>>, FALSE) ELSE SlicePage(<<>>)

\* reflect.ValueOf(page).Len(): -1 when it panics, as it does for the zero
\* Value of a nil interface and for a struct or a pointer.
reflectLen(page) == IF page.k = "slice" THEN Len(page.items) ELSE -1

ItoA(n) == <<"0", "1", "2", "3", "4", "5", "6", "7", "8", "9">>[n + 1]

AtoI(x) == CHOOSE n \in 0..9 : ItoA(n) = x

\* RateLimit values; NoRateLimit is the nil RateLimit.
RateLimit(type, remaining, reset) ==
    [type |-> type, remaining |-> remaining, reset |-> reset]

NoRateLimit == RateLimit("nil", 0, 0)

RateLimits ==
    {RateLimit(type, remaining, reset) :
        type \in {"RequestRateLimit", "ResourceRateLimit"},
        remaining \in {0, 1}, reset \in {0, 2}}

\* The value of a singleton set: {e(v) : v \in {x}} computes x once.
Only(S) == CHOOSE r \in S : TRUE

\* checkPaginatorParams that looks for the after convention first.
checkPaginatorParamsAfterFirst(ps) ==
    IF \E i \in 1..Len(ps) : ps[i].name = "after" THEN "after"
    ELSE IF \E i \in 1..Len(ps) : ps[i].name = "page" THEN "page"
    ELSE "unknown"

\* Continue() that looks at the page counter alone.
ContinueFirstPageOnly(p) == IF p.page = 1 THEN "true" ELSE "false"

\* Continue(), of both paginators: "panic" when reflect's Len panics.
Continue(p) ==
    LET mergeableHasMore ==
            IF p.currentPage.k = "mergeable" THEN p.currentPage.hasMore
            ELSE FALSE
    IN  IF p.mergeable
        THEN IF p.page = 1 \/ mergeableHasMore THEN "true" ELSE "false"
        ELSE IF reflectLen(p.currentPage) = -1 THEN "panic"
        ELSE IF p.page = 1 \/ reflectLen(p.currentPage) > 0 THEN "true"
        ELSE "false"

\* checkPaginatorParams(params): the first set whose names are all params.
checkPaginatorParams(ps) ==
    IF \E i \in 1..Len(ps) : ps[i].name = "page" THEN "page"
    ELSE IF \E i \in 1..Len(ps) : ps[i].name = "after" THEN "after"
    ELSE "unknown"

\* A paginator value: the one entry of the map GetPaginatorParamValue
\* returns, and its error.
PaginatorValue(name, val, err) == [name |-> name, val |-> val, err |-> err]

\* reflect.Zero(t).Interface()
Zero(t) ==
    CASE t = "string" -> Val("string", "")
      [] t = "int" -> Val("int", "0")
      [] OTHER -> Val(t, "zero")

\* GetPaginatorParamValue(params, resource, page) with the current page as
\* the resource: {"page": page} for the page set; for the after set the
\* zero value of the param after when the resource is nil, and what
\* After() returns when the resource is Afterable.
GetPaginatorParamValue(p) ==
    IF p.paramSet = "page"
    THEN PaginatorValue("page", Val("int", ItoA(p.page)), NoErr)
    ELSE IF p.paramSet # "after"
    THEN PaginatorValue("", Nil, Error("invalidParamSet", "", -1, "", ""))
    ELSE IF p.currentPage.k = "nil"
    THEN LET i == CHOOSE i \in 1..Len(p.params) : p.params[i].name = "after"
         IN  PaginatorValue("after", Zero(p.params[i].t), NoErr)
    ELSE IF p.currentPage.afterable
    THEN PaginatorValue("after", p.currentPage.after, NoErr)
    ELSE PaginatorValue("", Nil, Error("notAfterable", "", -1, "", ""))

\* slices.AddElems(args, []any{v}, i): v put in at the 0-based index i.
AddElems(as, v, i) ==
    [j \in 1..(Len(as) + 1) |->
        IF j <= i /\ j <= Len(as) THEN as[j]
        ELSE IF j = i + 1 \/ (i >= Len(as) /\ j = Len(as) + 1) THEN v
        ELSE as[j - 1]]

RECURSIVE insertLoop(_, _, _, _)
\* for paramNo, param := range params, from paramNo on.
insertLoop(ps, as, pv, paramNo) ==
    IF paramNo >= Len(ps) THEN [args |-> as, err |-> NoErr]
    ELSE LET param == ps[paramNo + 1]
         IN  IF param.name = pv.name
             THEN [args |-> AddElems(as, pv.val, paramNo), err |-> NoErr]
             ELSE IF paramNo >= Len(as)
             THEN IF param.required
                  THEN [args |-> as,
                        err |-> Error("requiredNotDefaulted", param.name,
                                      paramNo, "", "")]
                  ELSE insertLoop(ps, AddElems(as, param.defaultValue, paramNo),
                                  pv, paramNo + 1)
             ELSE insertLoop(ps, as, pv, paramNo + 1)

InsertPaginatorParamValues(ps, as, pv) == insertLoop(ps, as, pv, 0)

\* What a call on the paginator is working on: the paginator p, the clock,
\* the number of transport calls so far, the Execute calls that reached the
\* transport in this call (the page argument and the time) and its sleeps.
Frame(p, now, n) ==
    [p |-> p, clock |-> now, runs |-> n, calls |-> <<>>, sleeps |-> <<>>]

\* time.Sleep(d)
Sleep(m, why, d) ==
    [m EXCEPT !.clock = @ + d,
              !.sleeps = Append(@, [why |-> why, dur |-> d])]

CheckResult(m, ignoreFirstRequest, ok, err, panic) ==
    [m |-> m, ignoreFirstRequest |-> ignoreFirstRequest, ok |-> ok,
     err |-> err, panic |-> panic]

\* latestRetries that does not ask again.
latestNoRetries(m, rl) == m

\* for rl == nil && tries > 0: the oracle answers the same within a call.
latestRetries(m, rl) ==
    IF rl = NoRateLimit
    THEN Sleep(Sleep(Sleep(m, "retry", m.p.waitTime), "retry", m.p.waitTime),
               "retry", m.p.waitTime)
    ELSE m

\* limitArg is &p.limitArg, which is never nil, so the search for a
\* limit/count argument is skipped and **limitArg reads through p.limitArg.
limitArgCheck(m, rl) ==
    IF m.p.limitArg = "nil"
    THEN CheckResult(m, FALSE, TRUE, NoErr, TRUE)
    ELSE IF AtoI(m.p.limitArg) > rl.remaining
         THEN CheckResult(Sleep(m, "reset", rl.reset - m.clock),
                          FALSE, TRUE, NoErr, FALSE)
         ELSE CheckResult(m, FALSE, TRUE, NoErr, FALSE)

\* case ResourceRateLimit
resourceRateLimit(m, rl) ==
    LET n == reflectLen(m.p.currentPage)
    IN  IF n = -1 THEN CheckResult(m, FALSE, TRUE, NoErr, TRUE)
        ELSE IF n > rl.remaining
        THEN CheckResult(Sleep(m, "reset", rl.reset - m.clock),
                         FALSE, TRUE, NoErr, FALSE)
        ELSE IF m.p.page = 1 \/ n > 0 THEN limitArgCheck(m, rl)
        ELSE CheckResult(m, FALSE, TRUE, NoErr, FALSE)

\* case RequestRateLimit that never sleeps.
requestRateLimitNoWait(m, rl) == CheckResult(m, FALSE, TRUE, NoErr, FALSE)

\* case RequestRateLimit
requestRateLimit(m, rl) ==
    IF rl.remaining = 0
    THEN CheckResult(Sleep(m, "reset", rl.reset - m.clock),
                     FALSE, TRUE, NoErr, FALSE)
    ELSE CheckResult(m, FALSE, TRUE, NoErr, FALSE)

\* paginatorCheckRateLimit that flags every request as ignored.
checkAlwaysIgnores(m0, rl) ==
    CheckResult(m0, TRUE, m0.p.rateLimitedClient, NoErr, FALSE)

paginatorCheckRateLimit(m0, rl) ==
    IF ~m0.p.rateLimitedClient
    THEN CheckResult(m0, FALSE, FALSE, NoErr, FALSE)
    ELSE LET m == latestRetries(m0, rl)
         IN  IF rl # NoRateLimit /\ rl.reset > m.clock
             THEN IF rl.type = "RequestRateLimit"
                  THEN requestRateLimit(m, rl)
                  ELSE resourceRateLimit(m, rl)
             ELSE IF m.p.page = 1
             THEN CheckResult(m, TRUE, TRUE, NoErr, FALSE)
             ELSE IF rl = NoRateLimit
             THEN CheckResult(m, FALSE, TRUE,
                              Error("noRateLimit", "", m.p.page, "", ""), FALSE)
             ELSE CheckResult(m, FALSE, TRUE, NoErr, FALSE)

\* The transport's answer to a request for the page pageNo.
transport(pageNo, mergeable) ==
    IF pageNo \in 1..Len(server) THEN server[pageNo]
    ELSE IF mergeable THEN MergeablePage(<<>>, FALSE)
    ELSE IF Len(server) > 0 /\ server[1].afterable
    THEN AfterablePage(<<>>, Nil)
    ELSE SlicePage(<<>>)

\* The page a cursor asks for: the first page for the empty cursor, the
\* page after page n for the cursor "n".
cursorPage(cursor) ==
    IF cursor.t # "string" THEN 0
    ELSE IF cursor.v = "" THEN 1
    ELSE AtoI(cursor.v) + 1

\* The page the request asks for: the page argument, or the page of the
\* after argument, among the arguments the request builder received.
pageArg(ps, as) ==
    LET i == CHOOSE i \in 1..Len(ps) : ps[i].name = checkPaginatorParams(ps)
    IN  IF i > Len(as) THEN 0
        ELSE IF checkPaginatorParams(ps) = "page" THEN AtoI(as[i].v)
        ELSE cursorPage(as[i])

ExecuteResult(m, err, panic, ignoreFirstRequest) ==
    [m |-> m, err |-> err, panic |-> panic,
     ignoreFirstRequest |-> ignoreFirstRequest]

\* The closure execute of Next together with the assignment of its result:
\* the typed paginator assigns p.currentPage whatever execute returns, the
\* untyped one only what Execute returns.
execute(m0, as) ==
    Only({Only({
        LET m == [chk.m EXCEPT !.p.usingRateLimitedClient = chk.ok]
            ran == \E i \in 1..Len(ex.steps) : ex.steps[i] = "Run"
            pageNo == pageArg(m.p.params, ex.newArgs)
            m1 == IF ran
                  THEN [m EXCEPT !.runs = @ + 1,
                                 !.calls = Append(@, [page |-> pageNo,
                                                      at |-> m.clock])]
                  ELSE m
            response == IF ex.err = NoErr /\ ~ex.panic
                        THEN transport(pageNo, m.p.mergeable)
                        ELSE ZeroPage(m.p.mergeable)
        IN  IF chk.panic THEN ExecuteResult(chk.m, NoErr, TRUE, FALSE)
            ELSE IF chk.err # NoErr
            THEN ExecuteResult(
                     IF m.p.typed
                     THEN [m EXCEPT !.p.currentPage = ZeroPage(m.p.mergeable)]
                     ELSE m,
                     chk.err, FALSE, chk.ignoreFirstRequest)
            ELSE ExecuteResult(
                     [m1 EXCEPT !.p.currentPage = response],
                     IF ex.err # NoErr /\ ~m.p.typed
                     THEN Wrapf(ex.err, "error occurred on page no.")
                     ELSE ex.err,
                     ex.panic, chk.ignoreFirstRequest)
        : ex \in {Execute(chk.m.p.binding, as, (chk.m.runs + 1) \notin fails)}})
        : chk \in {paginatorCheckRateLimit(m0, rateLimit)}})

\* What a call on the paginator returned: the frame it ended with, the
\* error, whether it panicked, and the value (the pages, or Continue's bool).
Out(m, err, panic, value) ==
    [m |-> m, err |-> err, panic |-> panic, value |-> value]

\* nextPage that skips a page.
nextPageSkip(m) == [m EXCEPT !.p.page = @ + 2]

\* p.page++ and the sleep of waitTime that ends Next.
nextPage(m) ==
    LET m1 == [m EXCEPT !.p.page = @ + 1]
    IN  IF m1.p.waitTime # 0 THEN Sleep(m1, "waitTime", m1.p.waitTime)
        ELSE m1

\* Next(), of both paginators.  The error of InsertPaginatorParamValues is
\* assigned and then overwritten by execute: Next goes on with the
\* arguments the insertion returned.
PaginatorNext(m) ==
    IF GetPaginatorParamValue(m.p).err # NoErr
    THEN Out(m, Wrapf(GetPaginatorParamValue(m.p).err,
                      "cannot get paginator param values"), FALSE, "")
    ELSE Only({Only({
        IF e1.panic THEN Out(e1.m, NoErr, TRUE, "")
        ELSE IF e1.err = NoErr THEN Out(nextPage(e1.m), NoErr, FALSE, "")
        ELSE IF ~e1.ignoreFirstRequest
        THEN Out(e1.m,
                 IF m.p.typed THEN Wrapf(e1.err, "error occurred on page no.")
                 ELSE e1.err,
                 FALSE, "")
        ELSE Only({
            IF e2.panic THEN Out(e2.m, NoErr, TRUE, "")
            ELSE IF e2.err = NoErr THEN Out(nextPage(e2.m), NoErr, FALSE, "")
            ELSE Out(e2.m, Wrapf(e2.err, "after ignoring the first request"),
                     FALSE, "")
            : e2 \in {execute(e1.m, ins.args)}})
        : e1 \in {execute(m, ins.args)}})
        : ins \in {InsertPaginatorParamValues(m.p.params, m.p.args,
                                              GetPaginatorParamValue(m.p))}})

\* Mergeable.Merge of the model's Mergeable.
Merge(pages, page) ==
    MergeablePage(pages.items \o page.items, page.hasMore)

\* The item the model's Mergeable does not take: Merge returns an error for
\* a page that holds it.
BadItem == Val("int", "9")

MergeRefuses(page) == \E i \in DOMAIN page.items : page.items[i] = BadItem

\* merge that keeps the current page alone.
mergeReplace(p, pages) == p.currentPage

\* merge(pages): the aggregate with the current page merged in.
merge(p, pages) ==
    IF p.mergeable
    THEN IF p.page = 2 THEN p.currentPage ELSE Merge(pages, p.currentPage)
    ELSE SlicePage(pages.items \o p.currentPage.items)

\* The error merge returns: that of Merge, which is called for every page
\* but the first.
mergeErr(p) ==
    IF p.mergeable /\ p.page # 2 /\ MergeRefuses(p.currentPage)
    THEN Error("merge", "", -1, "", "")
    ELSE NoErr

\* `if pages, err = p.merge(pages); err != nil { return pages.Interface(), err }`
\* the typed merge returns the pages it was given; the untyped one returns
\* reflect.ValueOf(nil), the zero Value, and Interface() panics on it.
mergeFailed(m, pages) ==
    IF m.p.typed THEN Out(m, mergeErr(m.p), FALSE, pages)
    ELSE Out(m, NoErr, TRUE, pages)

RECURSIVE allLoop(_, _)
\* for p.Continue() { Next; merge }
allLoop(m, pages) ==
    IF Continue(m.p) = "panic" THEN Out(m, NoErr, TRUE, pages)
    ELSE IF Continue(m.p) = "false" THEN Out(m, NoErr, FALSE, pages)
    ELSE Only({IF nx.panic \/ nx.err # NoErr
               THEN Out(nx.m, nx.err, nx.panic, pages)
               ELSE IF mergeErr(nx.m.p) # NoErr THEN mergeFailed(nx.m, pages)
               ELSE allLoop(nx.m, merge(nx.m.p, pages))
               : nx \in {PaginatorNext(m)}})

All(m) == allLoop(m, ZeroPage(m.p.mergeable))

RECURSIVE pagesLoop(_, _, _)
\* for p.Continue() && p.page <= pageNo { Next; merge }
pagesLoop(m, pages, pageNo) ==
    IF Continue(m.p) = "panic" THEN Out(m, NoErr, TRUE, pages)
    ELSE IF Continue(m.p) = "false" \/ ~(m.p.page <= pageNo)
    THEN Out(m, NoErr, FALSE, pages)
    ELSE Only({IF nx.panic \/ nx.err # NoErr
               THEN Out(nx.m, nx.err, nx.panic, pages)
               ELSE IF mergeErr(nx.m.p) # NoErr THEN mergeFailed(nx.m, pages)
               ELSE pagesLoop(nx.m, merge(nx.m.p, pages), pageNo)
               : nx \in {PaginatorNext(m)}})

Pages(m, pageNo) == pagesLoop(m, ZeroPage(m.p.mergeable), pageNo)

RECURSIVE untilLoop(_, _, _)
\* for p.Continue() && predicate(p, pages) { Next; merge }, with the
\* predicate "pages holds fewer than n items".
untilLoop(m, pages, n) ==
    IF Continue(m.p) = "panic" THEN Out(m, NoErr, TRUE, pages)
    ELSE IF Continue(m.p) = "false" \/ ~(Len(pages.items) < n)
    THEN Out(m, NoErr, FALSE, pages)
    ELSE Only({IF nx.panic \/ nx.err # NoErr
               THEN Out(nx.m, nx.err, nx.panic, pages)
               ELSE IF mergeErr(nx.m.p) # NoErr THEN mergeFailed(nx.m, pages)
               ELSE untilLoop(nx.m, merge(nx.m.p, pages), n)
               : nx \in {PaginatorNext(m)}})

Until(m, n) == untilLoop(m, ZeroPage(m.p.mergeable), n)

----------------------------------------------------------------------------
(* A paginator on a binding with the params ("page"), its transport and    *)
(* rate-limit oracle, and the calls made on it one after the other.         *)

\* The binding the paginators are built for.
PageBinding ==
    SetPaginated(SetParamsMethod(NewBindingChain, <<ReqParam("page", Int0)>>),
                 TRUE).out

\* The return types RetT of the bindings: a slice, an array, a pointer type
\* that implements Mergeable, a struct, and the interface types any and
\* Mergeable.
ReturnTypes == {"[]int", "[2]int", "*Pages", "T", "any", "Mergeable"}

\* returnType.Implements(reflect.TypeOf((*Mergeable)(nil)).Elem())
ImplementsMergeable(t) == t \in {"*Pages", "Mergeable"}

\* reflect.ValueOf(new(RetT)).Elem().Type(): the type RetT itself, also
\* when RetT is an interface type.
typeOfNew(RetT) == RetT

\* reflect.TypeOf(retT) of `var retT RetT`, which WrapBinding stores as
\* returnType: the nil Type when RetT is an interface type.
typeOfZero(RetT) == IF Kind(RetT) = "Interface" THEN "nil" ELSE RetT

\* What a constructor returns: the named result (the nil Paginator unless
\* it was assigned), the error, and whether the call panicked.
NilPaginator == [nil |-> TRUE]

Constructed(p, err, panic) == [paginator |-> p, err |-> err, panic |-> panic]

\* The checks of the return type, which end both constructors: "panic"
\* for a method call on the nil reflect.Type.
returnTypeCheck(returnType) ==
    IF returnType = "nil" THEN "panic"
    ELSE IF ImplementsMergeable(returnType) THEN "ok"
    ELSE IF Kind(returnType) \in {"Slice", "Array"} THEN "ok"
    ELSE "error"

\* The checks of both constructors on the driver p they have set up.
construct(paginated, p, returnType) ==
    IF ~paginated
    THEN Constructed(NilPaginator, Error("notPaginated", "", -1, "", ""),
                     FALSE)
    ELSE IF p.paramSet = "unknown"
    THEN Constructed(NilPaginator, Error("noPaginatorParams", "", -1, "", ""),
                     FALSE)
    ELSE IF returnTypeCheck(returnType) = "panic"
    THEN Constructed(NilPaginator, NoErr, TRUE)
    ELSE IF returnTypeCheck(returnType) = "error"
    THEN Constructed(NilPaginator,
                     Error("nonSliceReturnType", "", -1, "", returnType),
                     FALSE)
    ELSE Constructed(p, NoErr, FALSE)

\* NewTypedPaginator(client, waitTime, binding, args...): rateLimitedClient
\* is whether client implements RateLimitedClient, RetT the return type of
\* the binding.
NewTypedPaginator(rateLimitedClient, waitTime, b, RetT, as) ==
    construct(b.paginated,
        [typed |-> TRUE, mergeable |-> ImplementsMergeable(RetT),
         rateLimitedClient |-> rateLimitedClient,
         usingRateLimitedClient |-> rateLimitedClient,
         binding |-> b, params |-> Params(b),
         paramSet |-> checkPaginatorParams(Params(b)),
         limitArg |-> "nil", waitTime |-> waitTime, args |-> as,
         page |-> 1, currentPage |-> ZeroPage(ImplementsMergeable(RetT))],
        typeOfNew(RetT))

\* NewPaginator(client, waitTime, binding, args...) for the BindingWrapper
\* WrapBinding made of b: currentPage is an any and starts nil.
NewPaginator(rateLimitedClient, waitTime, b, RetT, as) ==
    construct(b.paginated,
        [typed |-> FALSE, mergeable |-> ImplementsMergeable(RetT),
         rateLimitedClient |-> rateLimitedClient,
         usingRateLimitedClient |-> rateLimitedClient,
         binding |-> b, params |-> Params(b),
         paramSet |-> checkPaginatorParams(Params(b)),
         limitArg |-> "nil", waitTime |-> waitTime, args |-> as,
         page |-> 1, currentPage |-> NilPage],
        typeOfZero(RetT))

\* The return type of the paginators that are run: []int or *Pages.
RetTOf(mergeable) == IF mergeable THEN "*Pages" ELSE "[]int"

\* The item of the page pageNo.
ItemOf(pageNo) == Val("int", ItoA(pageNo))

\* The pages a transport can hold: a slice page i is empty or holds its one
\* item; a Mergeable page i holds its item and answers HasMore either way.
Servers(mergeable) ==
    {[i \in 1..MaxServerPages |->
        IF mergeable THEN MergeablePage(<<ItemOf(i)>>, f[i])
        ELSE SlicePage(IF f[i] THEN <<ItemOf(i)>> ELSE <<>>)] :
     f \in [1..MaxServerPages -> BOOLEAN]}

WaitTimes == {0, 1}

\* Which of the first two transport calls return an error.
FailSets == {{}, {1}, {2}, {1, 2}}

InitPaginator ==
    /\ IdleParser
    /\ IdleAttrs
    /\ IdleString
    /\ binding = PageBinding
    /\ callArgs = <<>>
    /\ pc = "idle"
    /\ ret = NoRet
    /\ \E rlc \in BOOLEAN, w \in WaitTimes, mergeable \in BOOLEAN :
          /\ pag \in {NewTypedPaginator(rlc, w, PageBinding,
                                        RetTOf(mergeable), <<>>).paginator,
                      NewPaginator(rlc, w, PageBinding,
                                   RetTOf(mergeable), <<>>).paginator}
          /\ server \in Servers(mergeable)
    /\ fails \in FailSets
    /\ runs = 0
    /\ rateLimit = NoRateLimit
    /\ clock = 0

\* What the last call on the paginator returned, with the paginator, the
\* clock and the oracle's answer it started from.
Returned(out, m) ==
    [err |-> out.err, panic |-> out.panic, value |-> out.value,
     calls |-> out.m.calls, sleeps |-> out.m.sleeps,
     before |-> m.p, start |-> m.clock, rateLimit |-> rateLimit]

\* The paginator, the clock and the transport after a call.
After(out) ==
    /\ pag' = out.m.p
    /\ clock' = out.m.clock
    /\ runs' = out.m.runs

Callable ==
    /\ clock <= MaxClock
    /\ pag.page <= MaxPageNo

\* p.Continue()
ContinueCall ==
    /\ Callable
    /\ pc' = "Continue"
    /\ ret' = Returned(Out(Frame(pag, clock, runs), NoErr,
                           Continue(pag) = "panic", Continue(pag)),
                       Frame(pag, clock, runs))
    /\ UNCHANGED <<binding, callArgs, parserVars, attrVars, stringVars, pagVars>>

\* p.Next()
NextCall ==
    /\ Callable
    /\ pc' = "Next"
    /\ \E out \in {PaginatorNext(Frame(pag, clock, runs))} :
          ret' = Returned(out, Frame(pag, clock, runs)) /\ After(out)
    /\ UNCHANGED <<binding, callArgs, parserVars, attrVars, stringVars, server, fails,
                   rateLimit>>

\* p.All()
AllCall ==
    /\ Callable
    /\ pc' = "All"
    /\ \E out \in {All(Frame(pag, clock, runs))} :
          ret' = Returned(out, Frame(pag, clock, runs)) /\ After(out)
    /\ UNCHANGED <<binding, callArgs, parserVars, attrVars, stringVars, server, fails,
                   rateLimit>>

\* p.Pages(pageNo)
PagesCall(pageNo) ==
    /\ Callable
    /\ pc' = "Pages"
    /\ callArgs' = <<pageNo>>
    /\ \E out \in {Pages(Frame(pag, clock, runs), pageNo)} :
          ret' = Returned(out, Frame(pag, clock, runs)) /\ After(out)
    /\ UNCHANGED <<binding, parserVars, attrVars, stringVars, server, fails, rateLimit>>

\* client.AddRateLimit(bindingName, rl), or the rate limit Run stores: the
\* first rate limit the client learns.
AddRateLimit(rl) ==
    /\ pag.rateLimitedClient
    /\ rateLimit = NoRateLimit
    /\ rateLimit' = rl
    /\ UNCHANGED <<callVars, parserVars, attrVars, stringVars, pag, server, fails, runs,
                   clock>>

NextPaginator ==
    \/ ContinueCall
    \/ NextCall
    \/ AllCall
    \/ \E pageNo \in 1..MaxPageNo : PagesCall(pageNo)
    \/ \E rl \in RateLimits : AddRateLimit(rl)

SpecPaginator == InitPaginator /\ [][NextPaginator]_vars

----------------------------------------------------------------------------
(* Properties of the paginator.                                             *)

\* A paginator as its constructor returned it.
Fresh(p) ==
    /\ p.page = 1
    /\ p.currentPage = IF p.typed THEN ZeroPage(p.mergeable) ELSE NilPage

\* The last call returned without an error or a panic.
Succeeded == ret.err = NoErr /\ ~ret.panic

\* The page the last transport call of the call fetched.
Fetched == transport(ret.calls[Len(ret.calls)].page, pag.mergeable)

\* C12: on a freshly constructed paginator, typed or untyped, with a slice
\* or a Mergeable return type, Continue() returns true.
C12_FreshContinueTrue ==
    (pc = "Continue" /\ Fresh(ret.before)) => ret.value = "true"

\* C13: after a successful Next the current page is the fetched page, and
\* Continue() is true exactly when that page has at least one item (slice)
\* or reports HasMore() = true (Mergeable).
C13_ContinueAfterNext ==
    (pc = "Next" /\ Succeeded) =>
        /\ Len(ret.calls) > 0
        /\ pag.currentPage = Fetched
        /\ Continue(pag) =
              IF pag.mergeable
              THEN IF Fetched.hasMore THEN "true" ELSE "false"
              ELSE IF Len(Fetched.items) > 0 THEN "true" ELSE "false"

\* A successful Next of a slice paginator fetched a page without items and
\* Continue() is false.
C13_Witness ==
    /\ pc = "Next"
    /\ Succeeded
    /\ ~pag.mergeable
    /\ pag.currentPage = SlicePage(<<>>)
    /\ Continue(pag) = "false"

\* The number of non-empty pages the transport holds before its first
\* empty page.
LeadingPages ==
    CHOOSE k \in 0..Len(server) :
        /\ \A i \in 1..k : server[i].items # <<>>
        /\ k = Len(server) \/ server[k + 1].items = <<>>

RECURSIVE ConcatPages(_)
\* P1 ++ ... ++ Pk
ConcatPages(k) ==
    IF k = 0 THEN <<>> ELSE ConcatPages(k - 1) \o server[k].items

C15_NextWaitsForReset ==
    (/\ pc = "Next"
     /\ ret.before.rateLimitedClient
     /\ ret.rateLimit.type = "ResourceRateLimit"
     /\ ret.rateLimit.remaining = 0
     /\ ret.rateLimit.reset > ret.start)
    => /\ ~ret.panic
       /\ Len(ret.calls) > 0
       /\ \A i \in 1..Len(ret.calls) :
              ret.calls[i].at >= ret.rateLimit.reset

\* C19: with a client that implements RateLimitedClient, a successful Next
\* does not sleep for waitTime.
C19_NoWaitTimeSleep ==
    (pc = "Next" /\ Succeeded /\ ret.before.rateLimitedClient) =>
        \A i \in 1..Len(ret.sleeps) : ret.sleeps[i].why # "waitTime"

RECURSIVE ConcatCalls(_, _)
\* The items of the pages the first n calls fetched, in order.
ConcatCalls(calls, n) ==
    IF n = 0 THEN <<>>
    ELSE ConcatCalls(calls, n - 1)
            \o transport(calls[n].page, pag.mergeable).items

\* C20: Pages(n) on a paginator in any state fetches n pages in that call,
\* fewer only if Continue() becomes false or an error occurs, and returns
\* the merge of the pages it fetched in that call.
C20_PagesFetchesN ==
    (pc = "Pages" /\ ~ret.panic) =>
        /\ \/ pag.page - ret.before.page = callArgs[1]
           \/ ret.err # NoErr
           \/ Continue(pag) = "false"
        /\ ret.value.items = ConcatCalls(ret.calls, pag.page - ret.before.page)

----------------------------------------------------------------------------
(* A binding built by NewWrappedBinding(name, ...), and one call on it.     *)

WrappedNames == {"a", "b"}

InitWrapped ==
    /\ IdleParser
    /\ IdleAttrs
    /\ IdleString
    /\ IdlePaginator
    /\ \E name \in WrappedNames, paginated \in BOOLEAN :
          /\ callArgs = <<name>>
          /\ binding \in
                {NewWrappedBinding(name, "request", "nil", "nil", "nil",
                                   FALSE, <<>>, paginated)}
                \cup {NewWrappedBinding(name, "request", "wrap", "unwrap",
                                        "response", TRUE, ps, paginated) :
                        ps \in ExecSchemas}
    /\ pc = "idle"
    /\ ret = NoRet

\* What Name() returned.
Named(name) == [NoRet EXCEPT !.invoked = <<Invoked("Name", <<>>, name)>>]

\* bw.Name()
WrapperNameCall ==
    /\ pc = "idle"
    /\ pc' = "Name"
    /\ ret' = Named(binding.name)
    /\ UNCHANGED <<binding, callArgs, parserVars, attrVars, stringVars, pagVars>>

\* bw.bindingName(): Name() of the wrapped binding
BindingNameCall ==
    /\ pc = "idle"
    /\ pc' = "bindingName"
    /\ ret' = Named(Name(binding.binding))
    /\ UNCHANGED <<binding, callArgs, parserVars, attrVars, stringVars, pagVars>>

\* bw.Execute(client, as...): Execute of the wrapped binding
WrapperExecuteCall(as, runOk) ==
    /\ pc = "idle"
    /\ pc' = "Execute"
    /\ ret' = Execute(binding.binding, as, runOk)
    /\ UNCHANGED <<binding, callArgs, parserVars, attrVars, stringVars, pagVars>>

NextWrapped ==
    \/ WrapperNameCall
    \/ BindingNameCall
    \/ /\ pc = "idle"
       /\ \E as \in SeqsUpTo(ArgValues, 1), runOk \in BOOLEAN :
             WrapperExecuteCall(as, runOk)

SpecWrapped == InitWrapped /\ [][NextWrapped]_vars

\* The names the call handed out: what Name() returned, or the bindingName
\* client.Run was given.
NamesHandedOut ==
    {ret.invoked[i].bindingName : i \in {j \in 1..Len(ret.invoked) :
                                            ret.invoked[j].step \in {"Name", "Run"}}}

----------------------------------------------------------------------------
(* A chain of setters b.SetX(...).SetY(...) on a binding: binding is the    *)
(* binding the chain starts from, callArgs the setters of the chain so far  *)
(* with their arguments, and ret the last call of the chain: the binding it *)
(* was called on before (before) and after (recv) the call, and the binding *)
(* it returned (out).                                                       *)

MaxChain == 2

SetterBindings ==
    {NewBindingChain,
     NewBinding("request", "wrap", "unwrap", "response", TRUE,
                <<ReqParam("a", Int0)>>, TRUE),
     SetName(NewBindingChain, "c").out}

InitSetters ==
    /\ IdleParser
    /\ IdleAttrs
    /\ IdleString
    /\ IdlePaginator
    /\ binding \in SetterBindings
    /\ callArgs = <<>>
    /\ pc = "idle"
    /\ ret = [before |-> binding, recv |-> binding, out |-> binding]

\* The next setter of the chain has returned r.
Chained(setter, value, r) ==
    /\ Len(callArgs) < MaxChain
    /\ pc' = setter
    /\ callArgs' = Append(callArgs, [setter |-> setter, value |-> value])
    /\ ret' = [before |-> ret.out, recv |-> r.recv, out |-> r.out]
    /\ binding' = IF callArgs = <<>> THEN r.recv ELSE binding
    /\ UNCHANGED <<parserVars, attrVars, stringVars, pagVars>>

SetNameCall(name) == Chained("SetName", name, SetName(ret.out, name))

SetPaginatedCall(paginated) ==
    Chained("SetPaginated", paginated, SetPaginated(ret.out, paginated))

SetParamsMethodCall(ps) ==
    Chained("SetParamsMethod", ps,
            valueReceiver(ret.out, SetParamsMethod(ret.out, ps)))

SetResponseWrapperMethodCall(method) ==
    Chained("SetResponseWrapperMethod", method,
            SetResponseWrapperMethod(ret.out, method))

SetResponseUnwrappedMethodCall(method) ==
    Chained("SetResponseUnwrappedMethod", method,
            SetResponseUnwrappedMethod(ret.out, method))

SetResponseMethodCall(method) ==
    Chained("SetResponseMethod", method, SetResponseMethod(ret.out, method))

NextSetters ==
    \/ \E name \in {"a", "b"} : SetNameCall(name)
    \/ \E paginated \in BOOLEAN : SetPaginatedCall(paginated)
    \/ \E ps \in {<<>>, <<Param("b", Int1)>>} : SetParamsMethodCall(ps)
    \/ \E method \in {"nil", "wrap2"} : SetResponseWrapperMethodCall(method)
    \/ \E method \in {"nil", "unwrap2"} : SetResponseUnwrappedMethodCall(method)
    \/ \E method \in {"nil", "response2"} : SetResponseMethodCall(method)

SpecSetters == InitSetters /\ [][NextSetters]_vars

\* The binding b carries the override value of the setter.
Carries(b, setter, value) ==
    CASE setter = "SetName" -> b.nameSet /\ b.name = value /\ Name(b) = value
      [] setter = "SetPaginated" -> b.paginated = value
      [] setter = "SetParamsMethod" ->
            b.hasParamsMethod /\ b.paramsMethod = value /\ Params(b) = value
      [] setter = "SetResponseWrapperMethod" -> b.responseWrapperMethod = value
      [] setter = "SetResponseUnwrappedMethod" ->
            b.responseUnwrappedMethod = value
      [] setter = "SetResponseMethod" -> b.responseMethod = value

\* The bindings b and c agree on what the setter sets.
SameAs(b, c, setter) ==
    CASE setter = "SetName" -> b.nameSet = c.nameSet /\ b.name = c.name
      [] setter = "SetPaginated" -> b.paginated = c.paginated
      [] setter = "SetParamsMethod" ->
            /\ b.hasParamsMethod = c.hasParamsMethod
            /\ b.paramsMethod = c.paramsMethod
      [] setter = "SetResponseWrapperMethod" ->
            b.responseWrapperMethod = c.responseWrapperMethod
      [] setter = "SetResponseUnwrappedMethod" ->
            b.responseUnwrappedMethod = c.responseUnwrappedMethod
      [] setter = "SetResponseMethod" -> b.responseMethod = c.responseMethod

Setters ==
    {"SetName", "SetPaginated", "SetParamsMethod", "SetResponseWrapperMethod",
     "SetResponseUnwrappedMethod", "SetResponseMethod"}

\* The calls of the setter in the chain.
CallsOf(setter) == {i \in 1..Len(callArgs) : callArgs[i].setter = setter}

\* C17: every setter leaves the binding it is called on as it was (name,
\* paginated flag, params method, step methods and request method) and
\* returns a binding that carries its override; the binding a chain of
\* setters returns carries the last override of every setter of the chain
\* and agrees with the binding the chain started from on everything else.
C17_SettersCopyOnWrite ==
    pc \in Setters =>
        /\ ret.recv = ret.before
        /\ \A setter \in Setters : SameAs(ret.recv, ret.before, setter)
        /\ Len(callArgs) = 1 => binding = ret.before
        /\ ret.out.requestMethod = binding.requestMethod
        /\ \A setter \in Setters :
              IF CallsOf(setter) = {}
              THEN SameAs(ret.out, binding, setter)
              ELSE LET last == CHOOSE i \in CallsOf(setter) :
                                  \A j \in CallsOf(setter) : j <= i
                   IN  Carries(ret.out, setter, callArgs[last].value)

\* b.SetName("a").SetPaginated(TRUE) on a binding from NewBindingChain:
\* the result has both, the binding neither.
C17_Witness ==
    /\ pc = "SetPaginated"
    /\ Len(callArgs) = 2
    /\ callArgs[1].setter = "SetName" /\ callArgs[1].value = "a"
    /\ callArgs[2].setter = "SetPaginated" /\ callArgs[2].value = TRUE
    /\ binding = NewBindingChain
    /\ Name(ret.out) = "a" /\ ret.out.paginated
    /\ Name(binding) = TypeName /\ ~binding.paginated

----------------------------------------------------------------------------
(* Properties of the arguments Execute hands to the step functions.         *)

\* The step functions Execute invoked.
StepsInvoked ==
    {i \in 1..Len(ret.invoked) : ret.invoked[i].step # "Run"}

\* C18: the request, wrapper, unwrapper and response functions Execute
\* invokes receive the arguments passed to Execute, normalized with the
\* defaults when the binding has params; on a binding without params
\* Execute accepts any argument list and the step functions receive
\* exactly the caller's arguments.
C18_StepsReceiveArgs ==
    (pc = "Execute" /\ ~ret.panic) =>
        IF Params(binding) = <<>>
        THEN /\ ret.err.wrap # "type check failed"
             /\ StepsInvoked # {}
             /\ \A i \in StepsInvoked : ret.invoked[i].args = callArgs
        ELSE (ValidSchema(Schema) /\ ret.err.wrap # "type check failed") =>
                \A i \in StepsInvoked :
                    ret.invoked[i].args = Normalized(Schema, callArgs)

----------------------------------------------------------------------------
(* The variadic tail of TypeCheckArgs.                                      *)

\* The 1-based positions, in the caller's argument list, of the arguments of
\* the variadic tail that are not of the element type.
TailOffenders(ps, as) ==
    {k \in (Fixed(ps) + 1)..Len(as) : as[k].t # Elem(ps[Len(ps)].t)}

\* C28: when an argument of the variadic tail fails the element-type check,
\* TypeCheckArgs fails with an error that carries the index of that argument
\* in the caller's argument list and its concrete type, and returns the
\* arguments before it: none after it is examined or appended.
C28_VariadicMismatchIndex ==
    (/\ pc = "TypeCheckArgs"
     /\ ValidSchema(Schema) /\ HasVariadic(Schema)
     /\ ret.err.kind = "variadicTypeMismatch")
    => /\ TailOffenders(Schema, callArgs) # {}
       /\ LET k == CHOOSE k \in TailOffenders(Schema, callArgs) :
                       \A m \in TailOffenders(Schema, callArgs) : k <= m
          IN  /\ ret.err.idx = k - 1
              /\ ret.err.got = callArgs[k].t
              /\ ret.newArgs = SubSeq(callArgs, 1, k - 1)

----------------------------------------------------------------------------
(* Skip mode of Params.                                                     *)

\* The step that consumes the token tok: a boolean met at slot 0 outside skip
\* mode starts skip mode; in skip mode a plain string token becomes the name
\* of a new grouping and any token that is not of kind String is ignored.
\* The params emitted so far stay as they are in all three.
C29_Step ==
    LET n == Len(args')
        tok == args'[n]
        kind == Kind(getReflectType(tok)[1])
    IN  n = Len(args) + 1 =>
          /\ (kind = "Bool" /\ currentBindingArg = 0 /\ ~skipUntilName)
                => /\ skipUntilName'
                   /\ currentBindingArg' = 0
                   /\ currentBinding' = ZeroParam
                   /\ bindingParams' = bindingParams
          /\ (skipUntilName /\ kind # "String")
                => /\ skipUntilName'
                   /\ UNCHANGED <<bindingParams, currentBinding,
                                  currentBindingArg>>
          /\ (skipUntilName /\ tok.k = "val" /\ tok.t = "string")
                => /\ ~skipUntilName'
                   /\ currentBinding' = [ZeroParam EXCEPT !.name = tok.v]
                   /\ currentBindingArg' = 1
                   /\ bindingParams' = bindingParams

\* C29: a boolean token met while the parser awaits a name (slot 0) puts
\* Params in skip mode; every following token is ignored until the next
\* string token, which becomes the name of a new grouping; the params
\* emitted before the boolean are left unchanged.
C29_BoolAtSlot0Skips == [][C29_Step]_vars

\* Params("a", 1, true, false, true): the third boolean is met at slot 0 and
\* starts skip mode, the required param a stays.
C29_Witness ==
    /\ args = <<StrA, Val("int", "1"), True, False, True>>
    /\ slots[5] = [slot |-> 0, skip |-> FALSE]
    /\ skipUntilName
    /\ bindingParams =
          <<BindingParam("a", FALSE, TRUE, Val("int", "1"), "int", FALSE)>>

----------------------------------------------------------------------------
(* Calls made one after the other on one binding: Params, TypeCheckArgs and *)
(* Execute all have value receivers, so the binding is after each call what *)
(* it was before it.                                                        *)

MaxCalls == 3

\* A call as the history keeps it: whether the structural check ran in it,
\* the error it returned and the paramErr the binding holds after it.
Called(op, b, err) ==
    [op |-> op, ran |-> checkParamsRuns(b), err |-> err,
     paramErr |-> b.paramErr]

InitCheckedParams ==
    /\ IdleParser
    /\ IdleAttrs
    /\ IdleString
    /\ IdlePaginator
    /\ binding \in {SetParamsMethod(NewBindingChain, ps) : ps \in ExecSchemas}
    /\ callArgs = <<>>
    /\ pc = "idle"
    /\ ret = [calls |-> <<>>]

CallAgain(op, err) ==
    /\ Len(ret.calls) < MaxCalls
    /\ pc' = op
    /\ ret' = [calls |-> Append(ret.calls, Called(op, binding, err))]
    /\ UNCHANGED <<binding, callArgs, parserVars, attrVars, stringVars, pagVars>>

\* binding.Params()
ParamsAgain == CallAgain("Params", NoErr)

\* binding.TypeCheckArgs()
TypeCheckArgsAgain == CallAgain("TypeCheckArgs", TypeCheckArgs(binding, <<>>).err)

\* binding.Execute(client)
ExecuteAgain == CallAgain("Execute", Execute(binding, <<>>, TRUE).err)

NextCheckedParams ==
    \/ ParamsAgain
    \/ TypeCheckArgsAgain
    \/ ExecuteAgain

SpecCheckedParams == InitCheckedParams /\ [][NextCheckedParams]_vars

\* C27: the structural check of a binding's params runs at most once: after
\* the first Params, TypeCheckArgs or Execute call its outcome is cached, and
\* the later calls neither run the check again nor change the cached error.
C27_CheckRunsOnce ==
    \A i \in 2..Len(ret.calls) :
        /\ ~ret.calls[i].ran
        /\ ret.calls[i].paramErr = ret.calls[1].paramErr

----------------------------------------------------------------------------
(* Construction of a paginator: one call of NewTypedPaginator or of         *)
(* NewPaginator on a binding, paginated or not, with any of the schemas     *)
(* over the params page, after and limit, and any of the return types.      *)

MaxConstructParams == 2

ConstructParams ==
    {ReqParam("page", Int0), Param("after", Val("string", "")),
     Param("limit", Int1)}

ConstructBindings ==
    {SetPaginated(b, paginated).out :
        b \in {NewBindingChain}
                 \cup {SetParamsMethod(NewBindingChain, ps) :
                          ps \in SeqsUpTo(ConstructParams, MaxConstructParams)},
        paginated \in BOOLEAN}

InitConstruct ==
    /\ IdleParser
    /\ IdleAttrs
    /\ IdleString
    /\ IdlePaginator
    /\ binding \in ConstructBindings
    /\ callArgs = <<>>
    /\ pc = "idle"
    /\ ret = NoRet

\* NewTypedPaginator[ResT, RetT](client, waitTime, binding)
NewTypedPaginatorCall(rateLimitedClient, waitTime, RetT) ==
    /\ pc = "idle"
    /\ pc' = "NewTypedPaginator"
    /\ callArgs' = <<RetT>>
    /\ ret' = NewTypedPaginator(rateLimitedClient, waitTime, binding, RetT, <<>>)
    /\ UNCHANGED <<binding, parserVars, attrVars, stringVars, pagVars>>

\* NewPaginator(client, waitTime, WrapBinding(binding))
NewPaginatorCall(rateLimitedClient, waitTime, RetT) ==
    /\ pc = "idle"
    /\ pc' = "NewPaginator"
    /\ callArgs' = <<RetT>>
    /\ ret' = NewPaginator(rateLimitedClient, waitTime, binding, RetT, <<>>)
    /\ UNCHANGED <<binding, parserVars, attrVars, stringVars, pagVars>>

NextConstruct ==
    /\ pc = "idle"
    /\ \E rlc \in BOOLEAN, w \in WaitTimes, RetT \in ReturnTypes :
          \/ NewTypedPaginatorCall(rlc, w, RetT)
          \/ NewPaginatorCall(rlc, w, RetT)

SpecConstruct == InitConstruct /\ [][NextConstruct]_vars

HasParam(ps, name) == \E i \in 1..Len(ps) : ps[i].name = name

\* The binding cannot be paginated with the return type RetT.
NotPaginatable(b, RetT) ==
    \/ ~b.paginated
    \/ ~HasParam(b.paramsMethod, "page") /\ ~HasParam(b.paramsMethod, "after")
    \/ ~ImplementsMergeable(RetT) /\ Kind(RetT) \notin {"Slice", "Array"}

\* C21: NewTypedPaginator and NewPaginator return an error and no driver
\* exactly when the binding is not paginated, or its schema has neither a
\* param page nor a param after, or its return type is neither Mergeable nor
\* a slice or array; with both a page and an after param the driver they
\* return uses the page convention.
C21_ConstructionFailsIff ==
    pc \in {"NewTypedPaginator", "NewPaginator"} =>
        /\ ~ret.panic
        /\ IF NotPaginatable(binding, callArgs[1])
           THEN ret.err # NoErr /\ ret.paginator = NilPaginator
           ELSE /\ ret.err = NoErr
                /\ ret.paginator # NilPaginator
                /\ ret.paginator.paramSet =
                      IF HasParam(Schema, "page") THEN "page" ELSE "after"

----------------------------------------------------------------------------
(* The after convention: a paginator on a binding with the params ("after") *)
(* whose return type is a slice type that implements Afterable.  The        *)
(* transport answers the empty cursor with its first page and the cursor    *)
(* "n" with the page after page n; a page's After() is Nil or the cursor of *)
(* the page that follows it.                                                *)

AfterBinding ==
    SetPaginated(SetParamsMethod(NewBindingChain,
                                 <<Param("after", Val("string", ""))>>),
                 TRUE).out

\* The cursors page i of n can return: Nil, or "i" when a page follows it.
Cursors(i, n) == {Nil} \cup (IF i < n THEN {Val("string", ItoA(i))} ELSE {})

AfterServers ==
    UNION {
        {[i \in 1..n |->
            AfterablePage(IF f[i] THEN <<ItemOf(i)>> ELSE <<>>, c[i])] :
         f \in [1..n -> BOOLEAN],
         c \in {c \in [1..n -> {Nil} \cup {Val("string", ItoA(i)) : i \in 1..n}] :
                  \A i \in 1..n : c[i] \in Cursors(i, n)}} :
        n \in 1..MaxServerPages}

\* What After() returns on the zero value of the return type.
ZeroAfters == {Nil, Val("string", "")}

InitAfter ==
    /\ IdleParser
    /\ IdleAttrs
    /\ IdleString
    /\ binding = AfterBinding
    /\ callArgs = <<>>
    /\ pc = "idle"
    /\ ret = NoRet
    /\ \E zeroAfter \in ZeroAfters :
          pag \in {[NewTypedPaginator(FALSE, 0, AfterBinding, "[]int",
                                      <<>>).paginator
                       EXCEPT !.currentPage = AfterablePage(<<>>, zeroAfter)],
                   NewPaginator(FALSE, 0, AfterBinding, "[]int",
                                <<>>).paginator}
    /\ server \in AfterServers
    /\ fails \in {{}, {2}}
    /\ runs = 0
    /\ rateLimit = NoRateLimit
    /\ clock = 0

NextAfter ==
    \/ ContinueCall
    \/ NextCall
    \/ AllCall
    \/ \E pageNo \in 1..MaxPageNo : PagesCall(pageNo)

SpecAfter == InitAfter /\ [][NextAfter]_vars

\* C30: under the after convention, once the page a call returned has a nil
\* after-cursor, pagination is finished: Continue() is false, and All and
\* Pages return without an error.
C30_NilCursorEndsPagination ==
    /\ (pc = "Next" /\ Succeeded /\ pag.currentPage.after = Nil)
          => Continue(pag) = "false"
    /\ (pc \in {"All", "Pages"} /\ fails = {} /\ ret.before.page > 1
           /\ ret.before.currentPage.after = Nil)
          => Succeeded /\ ret.calls = <<>>

----------------------------------------------------------------------------
(* Attributes over the life of a binding: NewBinding with Attr functions,   *)
(* then AddAttrs and Execute calls.  The program goes on with the binding   *)
(* that AddAttrs returns.  ret holds the last call: the receiver and its    *)
(* queue, the client, the map before the call, what the call returned, and  *)
(* the Attr functions that have evaluated with ok before and after it.      *)

MaxAttrs == 2

AttrFuncs ==
    {Attr("k", "1", NilClient), Attr("k", "2", "client"),
     Attr("h", "3", "client"), Attr("h", "4", "other")}

Clients == {"client", "other"}

\* The Attr functions of fs that evaluate with ok when given client.
Resolved(fs, client) == {fs[i] : i \in {j \in DOMAIN fs : evaluate(fs[j], client)}}

\* NewBinding(request, wrap, unwrap, response, params, paginated, attrs...):
\* the binding and what its attribute map holds.
NewBindingAttrs(request, wrap, unwrap, response, hasParams, ps, paginated, attrs) ==
    [binding |-> [NewBinding(request, wrap, unwrap, response, hasParams, ps,
                             paginated) EXCEPT !.attrFuncs = attrs],
     attrs |-> evaluateAttrs(
                  [NewBinding(request, wrap, unwrap, response, hasParams, ps,
                              paginated) EXCEPT !.attrFuncs = attrs],
                  {}, NilClient).attrs]

AttrBindings ==
    {NewBindingAttrs("request", "wrap", "unwrap", "response", TRUE,
                     <<ReqParam("a", Int0)>>, FALSE, fs) :
        fs \in SeqsUpTo(AttrFuncs, MaxAttrs)}
    \cup {NewBindingAttrs("request", "nil", "nil", "nil", FALSE, <<>>, FALSE, fs) :
            fs \in SeqsUpTo(AttrFuncs, MaxAttrs)}

\* The record of a call.
AttrCall(recv, client, before, fail, call, resolvedBefore, resolved) ==
    [recv |-> recv, client |-> client, before |-> before, fail |-> fail,
     call |-> call, resolvedBefore |-> resolvedBefore, resolved |-> resolved]

InitAttrs ==
    /\ IdleParser
    /\ IdleString
    /\ IdlePaginator
    /\ threads = <<>>
    /\ mutexes = <<>>
    /\ \E nb \in AttrBindings :
          /\ binding = nb.binding
          /\ maps = [attrs |-> nb.attrs]
          /\ ret = AttrCall(nb.binding, NilClient, {}, "none", NoRet, {},
                            Resolved(nb.binding.attrFuncs, NilClient))
    /\ callArgs = <<>>
    /\ pc = "NewBinding"

\* binding = binding.AddAttrs(fs...)
AddAttrsCall(fs) ==
    /\ Len(binding.attrFuncs) + Len(fs) <= MaxAttrs
    /\ \E r \in {AddAttrs(binding, maps[binding.attrs], fs)} :
          /\ binding' = r.out
          /\ maps' = [maps EXCEPT ![binding.attrs] = r.attrs]
          /\ ret' = AttrCall(binding, NilClient, maps[binding.attrs], "none",
                             [NoRet EXCEPT !.attrs = r.attrs,
                                           !.called = r.called],
                             ret.resolved,
                             ret.resolved \cup Resolved(r.called, NilClient))
    /\ pc' = "AddAttrs"
    /\ callArgs' = <<>>
    /\ UNCHANGED <<threads, mutexes, parserVars, stringVars, pagVars>>

\* binding.Execute(client, as...), where fail names the step function that
\* returns an error when it is called.
ExecuteAttrsCall(client, as, fail) ==
    /\ \E r \in {ExecuteSteps(binding, maps[binding.attrs], client, as, fail)} :
          /\ maps' = [maps EXCEPT ![binding.attrs] = r.attrs]
          /\ ret' = AttrCall(binding, client, maps[binding.attrs], fail, r,
                             ret.resolved,
                             ret.resolved \cup Resolved(r.called, client))
    /\ pc' = "Execute"
    /\ callArgs' = as
    /\ UNCHANGED <<binding, threads, mutexes, parserVars, stringVars, pagVars>>

NextAttrs ==
    \/ \E fs \in SeqsUpTo(AttrFuncs, 1) : AddAttrsCall(fs)
    \/ \E client \in Clients, as \in {<<>>, <<Int5>>},
          fail \in {"none", "ResponseWrapper", "Run", "ResponseUnwrapped"} :
            ExecuteAttrsCall(client, as, fail)

SpecAttrs == InitAttrs /\ [][NextAttrs]_vars

\* The position of a step in Pipeline.
Pos(step) == CHOOSE i \in DOMAIN Pipeline : Pipeline[i] = step

\* The entry an Attr function writes.
Entry(attr) == [key |-> attr.key, val |-> attr.val]

\* Execute called client.Run.
RunReached(call) == \E i \in DOMAIN call.invoked : call.invoked[i].step = "Run"

\* The last Execute's arguments passed TypeCheckArgs.
Validated == TypeCheckArgs(ret.recv, callArgs).err = NoErr

\* C22: Execute goes through validation, attribute evaluation with the
\* client, request-builder, container-builder, client.Run, unwrapper and
\* converter in this order.  When validation fails it returns that error
\* wrapped, evaluates no attribute and calls no step function nor
\* client.Run; when the container-builder, Run or the unwrapper fails it
\* returns that error wrapped and calls nothing that comes later, so Run is
\* not called after a container-builder failure.
C22_ExecuteStepOrder ==
    pc = "Execute" =>
        /\ \A i \in DOMAIN ret.call.steps : ret.call.steps[i] = Pipeline[i]
        /\ \A i, j \in DOMAIN ret.call.invoked :
              i < j => Pos(ret.call.invoked[i].step) < Pos(ret.call.invoked[j].step)
        /\ ~Validated =>
              /\ ret.call.err
                    = Wrapf(TypeCheckArgs(ret.recv, callArgs).err, "type check failed")
              /\ ret.call.called = <<>>
              /\ ret.call.invoked = <<>>
              /\ maps[binding.attrs] = ret.before
        /\ Validated =>
              /\ ret.call.called = ret.recv.attrFuncs
              /\ \A a \in Resolved(ret.recv.attrFuncs, ret.client) :
                    \E e \in ret.call.attrs : e.key = a.key
        /\ (Validated /\ failsAt(ret.recv, ret.fail) # 0) =>
              /\ ret.call.err.kind = ret.fail
              /\ ret.call.err.wrap # ""
              /\ \A i \in DOMAIN ret.call.invoked :
                    Pos(ret.call.invoked[i].step) <= Pos(ret.fail)
              /\ \E i \in DOMAIN ret.call.invoked :
                    ret.call.invoked[i].step = ret.fail
        /\ (Validated /\ failsAt(ret.recv, ret.fail) = 0) =>
              /\ ret.call.err = NoErr
              /\ RunReached(ret.call)
              /\ \A i \in 2..Len(Pipeline) :
                    methodOf(ret.recv, Pipeline[i]) # "nil"
                        => \E j \in DOMAIN ret.call.invoked :
                              ret.call.invoked[j].step = Pipeline[i]

\* An Execute that evaluated an attribute, built the request and then
\* stopped at the container-builder's error.
C22_Witness ==
    /\ pc = "Execute"
    /\ ret.fail = "ResponseWrapper"
    /\ ret.call.err.wrap = "could not execute ResponseWrapper"
    /\ ret.call.called # <<>>
    /\ ret.call.attrs # ret.before
    /\ Len(ret.call.invoked) = 2

\* C23: an Attr function that has evaluated with ok, in NewBinding, in
\* AddAttrs or in an Execute, is no longer in the binding's queue, and no
\* later Execute on the binding calls it.
C23_ResolvedLeavesQueue ==
    /\ \A a \in ret.resolved : a \notin Range(binding.attrFuncs)
    /\ pc = "Execute" =>
          \A a \in ret.resolvedBefore : a \notin Range(ret.call.called)

\* A later function of the queue that has not evaluated with ok before
\* writes the key of the i-th in the same pass.
Overwritten(fs, i, client, resolvedBefore) ==
    \E j \in DOMAIN fs :
        /\ j > i
        /\ fs[j].key = fs[i].key
        /\ evaluate(fs[j], client)
        /\ fs[j] \notin resolvedBefore

\* C24: an Attr function that panics with the nil client makes neither
\* AddAttrs nor Execute fail; the next Execute (one whose arguments pass
\* validation) calls it again with its client, and when it then returns,
\* its key and value are in the map that Execute hands to client.Run,
\* unless a later pending function wrote the same key after it.
C24_RetriedAtExecute ==
    /\ pc = "AddAttrs" => ret.call.err = NoErr /\ ~ret.call.panic
    /\ pc = "Execute" =>
          /\ ~ret.call.panic
          /\ (Validated /\ failsAt(ret.recv, ret.fail) = 0) => ret.call.err = NoErr
          /\ Validated =>
                \A i \in DOMAIN ret.recv.attrFuncs :
                    ~evaluate(ret.recv.attrFuncs[i], NilClient) =>
                        /\ ret.recv.attrFuncs[i] \in Range(ret.call.called)
                        /\ (evaluate(ret.recv.attrFuncs[i], ret.client)
                                /\ RunReached(ret.call)
                                /\ ~Overwritten(ret.recv.attrFuncs, i, ret.client,
                                                ret.resolvedBefore))
                             => Entry(ret.recv.attrFuncs[i]) \in ret.call.handed

\* C26: AddAttrs on a binding B leaves B as it was: B.Attrs() holds what it
\* held before the call, and what the call resolved is in the attribute map
\* of the binding it returns.
C26_AddAttrsLeavesReceiver ==
    pc = "AddAttrs" =>
        /\ maps[ret.recv.attrs] = ret.before
        /\ ret.recv.attrFuncs = SubSeq(binding.attrFuncs, 1, Len(ret.recv.attrFuncs))
        /\ \A a \in Resolved(ret.call.called, NilClient) :
              \E e \in maps[binding.attrs] : e.key = a.key

----------------------------------------------------------------------------
(* AddAttrs and Execute calls of two threads on one binding, one statement  *)
(* per step.  Each call works on its own copy of the struct (value          *)
(* receiver), so on its own slice header attrFuncs; the map attrs and the   *)
(* two mutexes are the ones the constructor made, shared by all copies.     *)
(* A thread at "append" or "remove" is assigning its copy's attrFuncs, at   *)
(* "range" it reads it; at "put" it writes the map; at "Request" and "Run"  *)
(* the request function and client.Run, which are given the map (through    *)
(* Attrs() and as an argument), read it.                                    *)

Threads == {1, 2}

\* No thread holds the mutex.
Unlocked == 0

\* A thread's frame: the call, where it is, the mutex it is about to lock
\* and where it goes then, the client it evaluates with, its copy's queue,
\* the functions AddAttrs was given, the range index and the indexes that
\* evaluated.
ThreadFrame(op, at, mutex, then, client, queue, fs) ==
    [op |-> op, pc |-> at, mutex |-> mutex, then |-> then, client |-> client,
     attrFuncs |-> queue, fs |-> fs, i |-> 0, evaluatedAttrIndexes |-> {}]

IdleThread == ThreadFrame("", "idle", "", "", NilClient, <<>>, <<>>)

RaceBindings ==
    {NewBindingAttrs("request", "nil", "nil", "nil", FALSE, <<>>, FALSE, fs) :
        fs \in SeqsUpTo(AttrFuncs, 1)}

InitRace ==
    /\ IdleParser
    /\ IdleString
    /\ IdlePaginator
    /\ \E nb \in RaceBindings :
          /\ binding = nb.binding
          /\ maps = [attrs |-> nb.attrs]
    /\ threads = [t \in Threads |-> IdleThread]
    /\ mutexes = [attrsMutex |-> Unlocked, attrFuncsMutex |-> Unlocked]
    /\ callArgs = <<>>
    /\ pc = "idle"
    /\ ret = NoRet

RaceFrame == <<binding, callArgs, pc, ret, parserVars, stringVars, pagVars>>

\* Where a call goes when evaluateAttrs returns.
afterEvaluateAttrs(op) == IF op = "AddAttrs" THEN "done" ELSE "Request"

\* Thread t calls binding.AddAttrs(fs...): next is attrFuncsMutex.Lock().
CallAddAttrs(t, fs) ==
    /\ threads[t].pc = "idle"
    /\ threads' = [threads EXCEPT ![t] =
                      ThreadFrame("AddAttrs", "Lock", "attrFuncsMutex", "append",
                                  NilClient, binding.attrFuncs, fs)]
    /\ UNCHANGED <<maps, mutexes, RaceFrame>>

\* Thread t calls binding.Execute(client) on a binding without params:
\* next is the range loop of evaluateAttrs(client).
CallExecute(t, client) ==
    /\ threads[t].pc = "idle"
    /\ threads' = [threads EXCEPT ![t] =
                      ThreadFrame("Execute", "range", "", "", client,
                                  binding.attrFuncs, <<>>)]
    /\ UNCHANGED <<maps, mutexes, RaceFrame>>

\* mutex.Lock() returns once no thread holds the mutex.
Lock(t) ==
    /\ threads[t].pc = "Lock"
    /\ mutexes[threads[t].mutex] = Unlocked
    /\ mutexes' = [mutexes EXCEPT ![threads[t].mutex] = t]
    /\ threads' = [threads EXCEPT ![t].pc = threads[t].then]
    /\ UNCHANGED <<maps, RaceFrame>>

\* b.attrFuncs = append(b.attrFuncs, attrs...); b.attrFuncsMutex.Unlock();
\* then evaluateAttrs(nil).
AppendAttrs(t) ==
    /\ threads[t].pc = "append"
    /\ threads' = [threads EXCEPT
                      ![t].attrFuncs = threads[t].attrFuncs \o threads[t].fs,
                      ![t].pc = "range"]
    /\ mutexes' = [mutexes EXCEPT !.attrFuncsMutex = Unlocked]
    /\ UNCHANGED <<maps, RaceFrame>>

\* One turn of `for i, attr := range b.attrFuncs`: evaluate(attr), and when
\* ok next is attrsMutex.Lock().
RangeNext(t) ==
    /\ threads[t].pc = "range"
    /\ threads[t].i < Len(threads[t].attrFuncs)
    /\ threads' =
          IF evaluate(threads[t].attrFuncs[threads[t].i + 1], threads[t].client)
          THEN [threads EXCEPT ![t].pc = "Lock", ![t].mutex = "attrsMutex",
                               ![t].then = "put"]
          ELSE [threads EXCEPT ![t].i = threads[t].i + 1]
    /\ UNCHANGED <<maps, mutexes, RaceFrame>>

\* The loop is over: with evaluated indexes next is attrFuncsMutex.Lock(),
\* without them evaluateAttrs returns.
RangeEnd(t) ==
    /\ threads[t].pc = "range"
    /\ threads[t].i >= Len(threads[t].attrFuncs)
    /\ threads' =
          IF threads[t].evaluatedAttrIndexes # {}
          THEN [threads EXCEPT ![t].pc = "Lock", ![t].mutex = "attrFuncsMutex",
                               ![t].then = "remove"]
          ELSE [threads EXCEPT ![t].pc = afterEvaluateAttrs(threads[t].op)]
    /\ UNCHANGED <<maps, mutexes, RaceFrame>>

\* b.attrs[key] = val; b.attrsMutex.Unlock()
PutAttr(t) ==
    /\ threads[t].pc = "put"
    /\ maps' = [maps EXCEPT ![binding.attrs] =
                   Put(@, threads[t].attrFuncs[threads[t].i + 1].key,
                       threads[t].attrFuncs[threads[t].i + 1].val)]
    /\ mutexes' = [mutexes EXCEPT !.attrsMutex = Unlocked]
    /\ threads' = [threads EXCEPT
                      ![t].evaluatedAttrIndexes = @ \cup {threads[t].i},
                      ![t].i = threads[t].i + 1,
                      ![t].pc = "range"]
    /\ UNCHANGED RaceFrame

\* b.attrFuncs = slices.RemoveElems(...); b.attrFuncsMutex.Unlock()
Remove(t) ==
    /\ threads[t].pc = "remove"
    /\ threads' = [threads EXCEPT
                      ![t].attrFuncs = RemoveElems(threads[t].attrFuncs,
                                                   threads[t].evaluatedAttrIndexes),
                      ![t].pc = afterEvaluateAttrs(threads[t].op)]
    /\ mutexes' = [mutexes EXCEPT !.attrFuncsMutex = Unlocked]
    /\ UNCHANGED <<maps, RaceFrame>>

\* req := b.Request(args...) returns; ResponseWrapper has no method; next
\* is client.Run(ctx, b.Name(), b.attrs, req, ...).
RequestReturns(t) ==
    /\ threads[t].pc = "Request"
    /\ threads' = [threads EXCEPT ![t].pc = "Run"]
    /\ UNCHANGED <<maps, mutexes, RaceFrame>>

\* client.Run returns, and Execute after it.
RunReturns(t) ==
    /\ threads[t].pc = "Run"
    /\ threads' = [threads EXCEPT ![t].pc = "done"]
    /\ UNCHANGED <<maps, mutexes, RaceFrame>>

NextRace ==
    \E t \in Threads :
        \/ \E fs \in SeqsUpTo(AttrFuncs, 1) : CallAddAttrs(t, fs)
        \/ \E client \in Clients : CallExecute(t, client)
        \/ Lock(t)
        \/ AppendAttrs(t)
        \/ RangeNext(t)
        \/ RangeEnd(t)
        \/ PutAttr(t)
        \/ Remove(t)
        \/ RequestReturns(t)
        \/ RunReturns(t)

SpecRace == InitRace /\ [][NextRace]_vars

\* An access: the structure, whose it is (Unlocked for the shared map, the
\* thread for its copy's queue) and whether it writes.
Access(structure, owner, write) ==
    [structure |-> structure, owner |-> owner, write |-> write]

\* What thread t is accessing where it is.
Accesses(t) ==
    CASE threads[t].pc \in {"append", "remove"} -> {Access("attrFuncs", t, TRUE)}
      [] threads[t].pc = "range" -> {Access("attrFuncs", t, FALSE)}
      [] threads[t].pc = "put" -> {Access("attrs", Unlocked, TRUE)}
      [] threads[t].pc \in {"Request", "Run"} -> {Access("attrs", Unlocked, FALSE)}
      [] OTHER -> {}

\* C25: with AddAttrs and Execute, or two Executes, running concurrently on
\* one binding, the mutexes keep every access to the attribute map and to
\* the queue exclusive: in no reachable state do two threads access the
\* same structure at the same time with one of them writing.
C25_NoConcurrentAccess ==
    \A t, u \in Threads :
        t # u =>
            \A a \in Accesses(t), b \in Accesses(u) :
                (a.structure = b.structure /\ a.owner = b.owner)
                    => (~a.write /\ ~b.write)

----------------------------------------------------------------------------
(* The page counter under the page convention.                              *)

\* The number of the transport call that is the k-th of the last call.
RunNo(k) == runs - Len(ret.calls) + k

\* The transport calls among the first k of the last call that returned
\* without an error: each ends a successful Next.
SucceededRuns(k) == {j \in 1..k : RunNo(j) \notin fails}

\* C31: under the page convention the page counter is 1 at construction and
\* 1 plus the number of successful Next calls in every state; the k-th
\* successful Next hands page = k to Execute, in both attempts when it
\* retries; a Next that fails leaves the counter as it was.
C31_PageCounter ==
    /\ pc = "idle" => pag.page = 1
    /\ pag.page = 1 + Cardinality({n \in 1..runs : n \notin fails})
    /\ pc \in {"Next", "All", "Pages"} =>
          /\ \A k \in DOMAIN ret.calls :
                ret.calls[k].page
                    = ret.before.page + Cardinality(SucceededRuns(k - 1))
          /\ pag.page = ret.before.page
                            + Cardinality(SucceededRuns(Len(ret.calls)))
    /\ pc = "Next" =>
          /\ \A k \in DOMAIN ret.calls : ret.calls[k].page = ret.before.page
          /\ Succeeded => pag.page = ret.before.page + 1
          /\ ~Succeeded => pag.page = ret.before.page

\* A first Next that was retried and then succeeded: both attempts asked
\* for page 1.
C31_Witness ==
    /\ pc = "Next"
    /\ Succeeded
    /\ ret.before.page = 1
    /\ Len(ret.calls) = 2
    /\ ret.calls[1].page = 1
    /\ ret.calls[2].page = 1
    /\ pag.page = 2

----------------------------------------------------------------------------
(* Paginators on bindings whose schema has a param beside "page", built     *)
(* with zero or one caller argument.                                        *)

InsertSchemas ==
    {<<ReqParam("a", Int0), ReqParam("page", Int0)>>,
     <<Param("a", Int1), ReqParam("page", Int0)>>,
     <<ReqParam("page", Int0), ReqParam("a", Int0)>>,
     <<ReqParam("page", Int0), Param("a", Int1)>>}

InsertBindings ==
    {SetPaginated(SetParamsMethod(NewBindingChain, ps), TRUE).out :
        ps \in InsertSchemas}

InitInsert ==
    /\ IdleParser
    /\ IdleAttrs
    /\ IdleString
    /\ binding \in InsertBindings
    /\ callArgs \in {<<>>, <<Int5>>}
    /\ pc = "idle"
    /\ ret = NoRet
    /\ \E rlc \in BOOLEAN, w \in WaitTimes :
          pag \in {NewTypedPaginator(rlc, w, binding, "[]int", callArgs).paginator,
                   NewPaginator(rlc, w, binding, "[]int", callArgs).paginator}
    /\ server \in Servers(FALSE)
    /\ fails \in {{}, {1}}
    /\ runs = 0
    /\ rateLimit = NoRateLimit
    /\ clock = 0

NextInsert ==
    \/ NextCall
    \/ \E rl \in RateLimits : AddRateLimit(rl)

SpecInsert == InitInsert /\ [][NextInsert]_vars

\* The insertion of the paging value into the paginator's arguments, as
\* the last Next did it.
Inserted ==
    InsertPaginatorParamValues(ret.before.params, ret.before.args,
                               GetPaginatorParamValue(ret.before))

\* C32: when the paging value cannot be inserted because a required param
\* ahead of it has no caller argument, Next returns the wrapped insertion
\* error at once: it does not ask the rate-limit oracle, does not sleep and
\* does not call Execute.
C32_InsertErrorReturned ==
    (pc = "Next" /\ Inserted.err # NoErr) =>
        /\ ~ret.panic
        /\ ret.err = Wrapf(Inserted.err, "cannot insert paginator values")
        /\ ret.sleeps = <<>>
        /\ ret.calls = <<>>
        /\ pag = ret.before

----------------------------------------------------------------------------
(* The rate-limit check and the retry of Next.  With the page binding and  *)
(* no caller arguments every Execute of a Next reaches the transport, so    *)
(* ret.calls holds the Execute attempts of the last call.                   *)

\* The rate-limit check of the last call's first attempt.
FirstCheck ==
    paginatorCheckRateLimit(Frame(ret.before, ret.start, 0), ret.rateLimit)

\* The k-th transport call of the last call returned an error.
RunFailed(k) == RunNo(k) \in fails

\* The sleeps of the last call that waited for the reset time.
ResetSleeps == {k \in DOMAIN ret.sleeps : ret.sleeps[k].why = "reset"}

\* C33: one Next attempts Execute at most twice; the second attempt is made
\* only when the first failed and its rate-limit check had flagged the
\* request as ignored, and when the second fails too Next returns an error.
\* Without a rate-limit oracle Next attempts Execute exactly once and
\* returns its failure.
C33_AtMostOneRetry ==
    pc = "Next" =>
        /\ Len(ret.calls) <= 2
        /\ Len(ret.calls) = 2 =>
              /\ RunFailed(1)
              /\ FirstCheck.ignoreFirstRequest
              /\ RunFailed(2) =>
                    /\ ret.err # NoErr
                    /\ ret.err.wrap = "after ignoring the first request"
              /\ ~RunFailed(2) => ret.err = NoErr
        /\ ~ret.before.rateLimitedClient =>
              /\ Len(ret.calls) = 1
              /\ RunFailed(1) <=> ret.err # NoErr

\* A Next on page 1 whose two attempts both failed.
C33_Witness ==
    /\ pc = "Next"
    /\ Len(ret.calls) = 2
    /\ RunFailed(1)
    /\ RunFailed(2)
    /\ ret.err.wrap = "after ignoring the first request"
    /\ pag.page = 1

\* C34: the rate-limit check flags a request as ignored only on page 1 when
\* the oracle has no limit data after its retries; with limit data whose
\* reset time has passed the call goes on without a wait and without the
\* flag, so that its failure is not retried.
C34_FlagOnlyWithoutData ==
    (pc = "Next" /\ ret.before.rateLimitedClient) =>
        /\ FirstCheck.ignoreFirstRequest =>
              (ret.before.page = 1 /\ ret.rateLimit = NoRateLimit)
        /\ (ret.rateLimit # NoRateLimit /\ ret.rateLimit.reset < ret.start) =>
              /\ ~FirstCheck.ignoreFirstRequest
              /\ ResetSleeps = {}
              /\ Len(ret.calls) = 1
              /\ RunFailed(1) => ret.err # NoErr

\* C35: with a request-count limit whose reset time is in the future, Next
\* waits until the reset time before it calls Execute if and only if
\* remaining is 0; with remaining > 0 it calls Execute without a rate-limit
\* wait.
C35_RequestLimitWait ==
    (/\ pc = "Next"
     /\ ret.rateLimit.type = "RequestRateLimit"
     /\ ret.rateLimit.reset > ret.start) =>
        /\ ~ret.panic
        /\ Len(ret.calls) = 1
        /\ ResetSleeps # {} <=> ret.rateLimit.remaining = 0
        /\ ret.rateLimit.remaining = 0 =>
              /\ ret.sleeps[1] = [why |-> "reset",
                                  dur |-> ret.rateLimit.reset - ret.start]
              /\ ret.calls[1].at = ret.rateLimit.reset
        /\ ret.rateLimit.remaining > 0 => ret.calls[1].at = ret.start

\* A Next that slept until the reset of an exhausted request limit and then
\* called Execute.
C35_Witness ==
    /\ pc = "Next"
    /\ ret.rateLimit = RateLimit("RequestRateLimit", 0, 2)
    /\ ret.start < 2
    /\ ResetSleeps # {}
    /\ Len(ret.calls) = 1
    /\ ret.calls[1].at = 2

\* C36: when the oracle has no limit data after its retries and the
\* paginator is past page 1, Next returns a rate-limit error without
\* calling Execute and without a retry, and leaves the page counter.
C36_NoDataPastFirstPage ==
    (/\ pc = "Next"
     /\ ret.before.rateLimitedClient
     /\ ret.rateLimit = NoRateLimit
     /\ ret.before.page > 1) =>
        /\ ~ret.panic
        /\ ret.err.kind = "noRateLimit"
        /\ ret.calls = <<>>
        /\ ret.sleeps = [k \in 1..3 |-> [why |-> "retry",
                                         dur |-> ret.before.waitTime]]
        /\ pag.page = ret.before.page

\* A Next on page 2 that gave up for want of limit data.
C36_Witness ==
    /\ pc = "Next"
    /\ ret.before.rateLimitedClient
    /\ ret.rateLimit = NoRateLimit
    /\ ret.before.page = 2
    /\ ret.err.kind = "noRateLimit"
    /\ ret.calls = <<>>
    /\ pag.page = 2

----------------------------------------------------------------------------
(* Paginators that are first called at time 1, with a client that has no    *)
(* limit data or limit data whose reset time (0) has passed.                *)

ExpiredRateLimits == {rl \in RateLimits : rl.reset = 0}

InitExpired ==
    /\ IdleParser
    /\ IdleAttrs
    /\ IdleString
    /\ binding = PageBinding
    /\ callArgs = <<>>
    /\ pc = "idle"
    /\ ret = NoRet
    /\ \E w \in WaitTimes, mergeable \in BOOLEAN :
          /\ pag \in {NewTypedPaginator(TRUE, w, PageBinding,
                                        RetTOf(mergeable), <<>>).paginator,
                      NewPaginator(TRUE, w, PageBinding,
                                   RetTOf(mergeable), <<>>).paginator}
          /\ server \in Servers(mergeable)
    /\ fails \in FailSets
    /\ runs = 0
    /\ rateLimit \in ExpiredRateLimits \cup {NoRateLimit}
    /\ clock = 1

NextExpired == NextCall

SpecExpired == InitExpired /\ [][NextExpired]_vars

----------------------------------------------------------------------------
(* Paginators with a Mergeable return type on transports whose pages may    *)
(* hold the item that Merge refuses.                                        *)

MergeServers ==
    {[i \in 1..MaxServerPages |->
        MergeablePage(<<IF bad[i] THEN BadItem ELSE ItemOf(i)>>, more[i])] :
     bad \in [1..MaxServerPages -> BOOLEAN],
     more \in [1..MaxServerPages -> BOOLEAN]}

InitMerge ==
    /\ IdleParser
    /\ IdleAttrs
    /\ IdleString
    /\ binding = PageBinding
    /\ callArgs = <<>>
    /\ pc = "idle"
    /\ ret = NoRet
    /\ \E w \in WaitTimes :
          pag \in {NewTypedPaginator(FALSE, w, PageBinding, "*Pages", <<>>).paginator,
                   NewPaginator(FALSE, w, PageBinding, "*Pages", <<>>).paginator}
    /\ server \in MergeServers
    /\ fails = {}
    /\ runs = 0
    /\ rateLimit = NoRateLimit
    /\ clock = 0

\* p.Until(predicate), the predicate being "fewer than n items so far".
UntilCall(n) ==
    /\ Callable
    /\ pc' = "Until"
    /\ callArgs' = <<n>>
    /\ \E out \in {Until(Frame(pag, clock, runs), n)} :
          ret' = Returned(out, Frame(pag, clock, runs)) /\ After(out)
    /\ UNCHANGED <<binding, parserVars, attrVars, stringVars, server, fails, rateLimit>>

NextMerge ==
    \/ NextCall
    \/ AllCall
    \/ \E pageNo \in 1..MaxPageNo : PagesCall(pageNo)
    \/ \E n \in 1..MaxPageNo : UntilCall(n)

SpecMerge == InitMerge /\ [][NextMerge]_vars

\* The page the k-th transport call of the last call fetched.
FetchedAt(k) == transport(ret.calls[k].page, TRUE)

RECURSIVE MergedCalls(_)
\* The aggregate of the first n pages the last call fetched: the first page
\* of the transport stands for itself, every other page is merged in.
MergedCalls(n) ==
    IF n = 0 THEN ZeroPage(TRUE)
    ELSE IF ret.calls[n].page = 1 THEN FetchedAt(n)
    ELSE Merge(MergedCalls(n - 1), FetchedAt(n))

\* The last call fetched a page that Merge refused.
MergeFailed ==
    /\ pc \in {"All", "Pages", "Until"}
    /\ ret.calls # <<>>
    /\ ret.calls[Len(ret.calls)].page # 1
    /\ MergeRefuses(FetchedAt(Len(ret.calls)))

\* C37: when Merge fails while All, Pages or Until aggregates, the call
\* stops and returns that error together with the aggregate built so far,
\* for the typed and for the untyped paginator, and neither panics.
C37_MergeErrorReturned ==
    MergeFailed =>
        /\ ~ret.panic
        /\ ret.err = Error("merge", "", -1, "", "")
        /\ ret.value = MergedCalls(Len(ret.calls) - 1)

----------------------------------------------------------------------------
(* Paginators on bindings with a "limit" or "count" param, behind a client  *)
(* with a rate-limit oracle.                                                *)

LimitSchemas ==
    {<<ReqParam("page", Int0), Param("limit", Int1)>>,
     <<ReqParam("page", Int0), Param("count", Int0)>>,
     <<ReqParam("limit", Int0), ReqParam("page", Int0)>>}

LimitBindings ==
    {SetPaginated(SetParamsMethod(NewBindingChain, ps), TRUE).out :
        ps \in LimitSchemas}

\* The caller arguments that fit the schema: none for a limit with a
\* default, the limit for a required one.
LimitArgs(b) ==
    IF Params(b)[1].name = "page" THEN {<<>>}
    ELSE {<<Val("int", "0")>>, <<Val("int", "1")>>, <<Val("int", "2")>>}

InitLimit ==
    /\ IdleParser
    /\ IdleAttrs
    /\ IdleString
    /\ binding \in LimitBindings
    /\ callArgs \in LimitArgs(binding)
    /\ pc = "idle"
    /\ ret = NoRet
    /\ \E w \in WaitTimes :
          pag \in {NewTypedPaginator(TRUE, w, binding, "[]int", callArgs).paginator,
                   NewPaginator(TRUE, w, binding, "[]int", callArgs).paginator}
    /\ server \in Servers(FALSE)
    /\ fails = {}
    /\ runs = 0
    /\ rateLimit = NoRateLimit
    /\ clock = 0

NextLimit ==
    \/ NextCall
    \/ \E rl \in RateLimits : AddRateLimit(rl)

SpecLimit == InitLimit /\ [][NextLimit]_vars

\* The 1-based position of the first param named "limit" or "count".
LimitParam(ps) ==
    CHOOSE i \in DOMAIN ps :
        /\ ps[i].name \in {"limit", "count"}
        /\ \A j \in 1..(i - 1) : ps[j].name \notin {"limit", "count"}

\* The effective value of that param: the caller's argument at its
\* position when there is one, else its default.
EffectiveLimit(p) ==
    IF LimitParam(p.params) <= Len(p.args)
    THEN AtoI(p.args[LimitParam(p.params)].v)
    ELSE AtoI(p.params[LimitParam(p.params)].defaultValue.v)

\* C38: on page 1, with a resource-count limit whose reset time is in the
\* future and a current page that is still empty, the check takes the
\* effective value of the first param named "limit" or "count" and Next
\* waits until reset before it calls Execute if and only if that value
\* exceeds remaining; the check completes and Execute is called.
C38_ResourceLimitUsesLimitArg ==
    (/\ pc = "Next"
     /\ ret.before.page = 1
     /\ ret.before.currentPage.items = <<>>
     /\ ret.rateLimit.type = "ResourceRateLimit"
     /\ ret.rateLimit.reset > ret.start) =>
        /\ ~ret.panic
        /\ Len(ret.calls) = 1
        /\ ResetSleeps # {}
              <=> EffectiveLimit(ret.before) > ret.rateLimit.remaining
        /\ ResetSleeps # {} => ret.calls[1].at = ret.rateLimit.reset

\* ---------------------------------------------------------------------------
\* Arguments past the last param of a schema without a variadic param.

\* The call handed more arguments than the non-empty, variadic-free schema
\* has params.
ExtraArgs ==
    /\ pc = "TypeCheckArgs"
    /\ binding.paramErr = NoErr
    /\ Len(Params(binding)) > 0
    /\ ~HasVariadic(Params(binding))
    /\ Len(callArgs) > Len(Params(binding))

\* C39: for a non-empty schema without a variadic param, the arguments
\* supplied beyond the last param are silently discarded: when the first
\* len(schema) arguments fit their params, TypeCheckArgs returns no error and
\* a list of exactly schema length that holds only the first len(schema)
\* arguments; and in every case the outcome is the one of the call without
\* the extra arguments.
C39_ExtraArgsDiscarded ==
    ExtraArgs =>
        LET ps == Params(binding)
            first == SubSeq(callArgs, 1, Len(ps))
        IN  /\ ~ret.panic
            /\ (\A i \in 1..Len(ps) : TypeOK(ps[i], callArgs[i])) =>
                   /\ ret.err = NoErr
                   /\ Len(ret.newArgs) = Len(ps)
                   /\ ret.newArgs = first
            /\ ret.err # NoErr =>
                   \E i \in 1..Len(ps) : ~TypeOK(ps[i], callArgs[i])
            /\ ret = TypeCheckArgs(binding, first)

\* Two params, three fitting arguments, and the call succeeded.
C39_Witness ==
    /\ ExtraArgs
    /\ Len(Params(binding)) = 2
    /\ Len(callArgs) = 3
    /\ ret.err = NoErr
    /\ ret.newArgs # callArgs

\* ---------------------------------------------------------------------------
\* What a failed Next leaves behind.

\* Next returned an error.
NextFailed == pc = "Next" /\ ~ret.panic /\ ret.err # NoErr

====
